---- MODULE Spec2Model ----
(***************************************************************************)
(* A model of the KILT sdk-js DID resolver (DidResolverV2.ts) together     *)
(* with the light DID codec it relies on (LightDidDetailsV2.ts), and of    *)
(* the reconstruction of public credentials from the block that stored     *)
(* them (PublicCredential.chain.ts).                                       *)
(*                                                                         *)
(* A call of resolve / resolveRepresentation / dereference is a small      *)
(* process: it runs synchronously up to its first chain query, waits for   *)
(* the answer of the linked-info runtime call, possibly issues and waits   *)
(* for the deleted-DID index query, and completes.  The chain changes      *)
(* concurrently (creation and deletion of full DIDs).                      *)
(***************************************************************************)
EXTENDS Integers, Sequences, FiniteSets, TLC

\* Number of distinct account addresses (DID identifiers) of the model.
NumAddresses == 2
Addresses == 1..NumAddresses

\* A JS object without properties; an absent property is an absent field.
EmptyObject == [k \in {} |-> TRUE]

\* An optional value is a sequence of length 0 (undefined) or 1.
None == <<>>
Some(v) == <<v>>

\* Completion of a synchronous function: a returned value or a thrown error.
Returned(v) == [error |-> "", value |-> <<v>>]
Thrown(e) == [error |-> e, value |-> <<>>]

-----------------------------------------------------------------------------
(* Fragments, keys and addresses                                           *)

\* A fragment id "#name" is the pair of the hash sign and the name.
Fragment(name) == <<"#", name>>

authenticationKeyId == Fragment("authentication")
encryptionKeyId == Fragment("encryption")

fragmentIdToChain(id) == id[2]

verificationKeyTypeToLightDidEncoding ==
    [sr25519 |-> "00", ed25519 |-> "01"]

lightDidEncodingToVerificationKeyType ==
    ("00" :> "sr25519") @@ ("01" :> "ed25519")

encryptionKeyTypes == {"x25519"}

\* The raw public key of the account behind an address, and back (SS58).
decodeAddress(address) == <<"pk", address>>
encodeAddress(publicKey) == publicKey[2]

decodeMultikeyVerificationMethod(vm) ==
    [keyType |-> vm.publicKeyMultibase[2], publicKey |-> vm.publicKeyMultibase[3]]

encodeVerificationMethodToMultiKey(controller, id, key) ==
    [ controller |-> controller,
      id |-> id,
      type |-> "Multikey",
      publicKeyMultibase |-> <<"z", key.keyType, key.publicKey>> ]

getAddressByVerificationMethod(vm) ==
    encodeAddress(decodeMultikeyVerificationMethod(vm).publicKey)

-----------------------------------------------------------------------------
(* DID URIs.  A URI string is kept as the record of its lexical parts:     *)
(* did:kilt:full:<address>[#fragment] or                                   *)
(* did:kilt:light:<enc><address>[:<details>][#fragment].  Address 0 stands *)
(* for a string that is no well-formed address.                            *)

FullUri(address, fragment) ==
    [ method |-> "kilt", variant |-> "full", enc |-> "", address |-> address,
      details |-> None, fragment |-> fragment ]

LightUri(enc, address, details, fragment) ==
    [ method |-> "kilt", variant |-> "light", enc |-> enc, address |-> address,
      details |-> details, fragment |-> fragment ]

MatchesGrammar(uri) ==
    /\ uri.method = "kilt"
    /\ uri.address \in Addresses
    /\ \/ uri.variant = "full" /\ uri.enc = "" /\ uri.details = None
       \/ uri.variant = "light" /\ uri.enc \in {"00", "01", "02"}

parse(uri) ==
    IF ~MatchesGrammar(uri) THEN Thrown("InvalidDidFormatError")
    ELSE Returned(
        [ did |-> [uri EXCEPT !.fragment = None],
          type |-> uri.variant,
          address |-> uri.address,
          version |-> 1,
          fragment |-> uri.fragment,
          authKeyTypeEncoding |-> uri.enc,
          encodedDetails |-> uri.details ])

\* validateUri(input, expectType): TRUE when it returns, FALSE when it throws.
validateUri(uri, expectType) ==
    /\ parse(uri).error = ""
    /\ expectType = "Did" => parse(uri).value[1].fragment = None

getFullDidUri(did) == FullUri(parse(did).value[1].address, None)

toChain(did) == parse(did).value[1].address

-----------------------------------------------------------------------------
(* Light DID codec                                                         *)

\* A CreateDocumentInput: authentication is the one-element tuple of the
\* code, keyAgreement and service are optional.
CreateDocumentInput(authentication, keyAgreement, service) ==
    [ authentication |-> authentication, keyAgreement |-> keyAgreement,
      service |-> service ]

validateNewService(service) == service.id[1] = "#"

validateCreateDocumentInput_authenticationOnly(input) ==
    IF decodeMultikeyVerificationMethod(input.authentication[1]).keyType
           \notin DOMAIN verificationKeyTypeToLightDidEncoding
    THEN "UnsupportedKeyError" ELSE ""

\* The error validateCreateDocumentInput throws, "" when it returns.
validateCreateDocumentInput(input) ==
    LET authenticationKeyType ==
            decodeMultikeyVerificationMethod(input.authentication[1]).keyType
        services == IF input.service = None THEN <<>> ELSE input.service[1]
    IN  IF authenticationKeyType \notin DOMAIN verificationKeyTypeToLightDidEncoding
        THEN "UnsupportedKeyError"
        ELSE IF /\ input.keyAgreement # None
                /\ decodeMultikeyVerificationMethod(input.keyAgreement[1]).keyType
                       \notin encryptionKeyTypes
        THEN "DidError"
        ELSE IF \E i \in DOMAIN services :
                    \/ services[i].id \in {authenticationKeyId, encryptionKeyId}
                    \/ ~validateNewService(services[i])
        THEN "DidError"
        ELSE ""

\* cbor.encode / cbor.decode and the multibase base58 string around them.
cborEncode(object) == [cbor |-> object]
cborDecodes(serialized) == "cbor" \in DOMAIN serialized
cborDecode(serialized) == serialized.cbor

base58Encode(serializationVersion, serialized) ==
    [ multibase |-> "z", serializationVersion |-> serializationVersion,
      serialized |-> serialized ]
base58Decodes(rawInput) == rawInput.multibase = "z"

serializeAdditionalLightDidDetails_emptyList(keyAgreement, service) ==
    LET e == IF keyAgreement # None THEN [e |-> keyAgreement[1]] ELSE EmptyObject
        s == IF service # None
             THEN [s |-> [i \in DOMAIN service[1] |->
                            [service[1][i] EXCEPT !.id = fragmentIdToChain(@)]]]
             ELSE EmptyObject
        objectToSerialize == e @@ s
    IN  IF DOMAIN objectToSerialize = {} THEN None
        ELSE Some(base58Encode(0, cborEncode(objectToSerialize)))

serializeAdditionalLightDidDetails(keyAgreement, service) ==
    LET e == IF keyAgreement # None THEN [e |-> keyAgreement[1]] ELSE EmptyObject
        s == IF service # None /\ Len(service[1]) > 0
             THEN [s |-> [i \in DOMAIN service[1] |->
                            [service[1][i] EXCEPT !.id = fragmentIdToChain(@)]]]
             ELSE EmptyObject
        objectToSerialize == e @@ s
    IN  IF DOMAIN objectToSerialize = {} THEN None
        ELSE Some(base58Encode(0, cborEncode(objectToSerialize)))

deserializeService(entry) ==
    [ id |-> Fragment(entry.id),
      type |-> IF "type" \in DOMAIN entry THEN entry.type ELSE entry.types,
      serviceEndpoint |-> IF "serviceEndpoint" \in DOMAIN entry
                          THEN entry.serviceEndpoint ELSE entry.urls ]

deserializeAdditionalLightDidDetails_anyVersion(rawInput, version) ==
    IF ~base58Decodes(rawInput) THEN Thrown("Error")
    ELSE IF ~cborDecodes(rawInput.serialized) THEN Thrown("Error")
    ELSE LET deserialized == cborDecode(rawInput.serialized)
         IN  Returned(
               [ keyAgreement |-> IF "e" \in DOMAIN deserialized
                                  THEN Some(deserialized.e) ELSE None,
                 service |-> IF "s" \in DOMAIN deserialized
                             THEN Some([i \in DOMAIN deserialized.s |->
                                          deserializeService(deserialized.s[i])])
                             ELSE None ])

deserializeAdditionalLightDidDetails(rawInput, version) ==
    IF version # 1 THEN Thrown("DidError")
    ELSE IF ~base58Decodes(rawInput) THEN Thrown("Error")
    ELSE IF rawInput.serializationVersion # 0 THEN Thrown("DidError")
    ELSE IF ~cborDecodes(rawInput.serialized) THEN Thrown("Error")
    ELSE LET deserialized == cborDecode(rawInput.serialized)
         IN  Returned(
               [ keyAgreement |-> IF "e" \in DOMAIN deserialized
                                  THEN Some(deserialized.e) ELSE None,
                 service |-> IF "s" \in DOMAIN deserialized
                             THEN Some([i \in DOMAIN deserialized.s |->
                                          deserializeService(deserialized.s[i])])
                             ELSE None ])

createLightDidDocument(input) ==
    LET invalid == validateCreateDocumentInput(input)
        encodedDetails ==
            serializeAdditionalLightDidDetails(input.keyAgreement, input.service)
        authKey == decodeMultikeyVerificationMethod(input.authentication[1])
        authenticationKeyTypeEncoding ==
            verificationKeyTypeToLightDidEncoding[authKey.keyType]
        address == getAddressByVerificationMethod(input.authentication[1])
        uri == LightUri(authenticationKeyTypeEncoding, address, encodedDetails, None)
        did == [ id |-> uri,
                 authentication |-> <<authenticationKeyId>>,
                 verificationMethod |->
                     <<encodeVerificationMethodToMultiKey(uri, authenticationKeyId, authKey)>> ]
               @@ (IF input.service # None THEN [service |-> input.service[1]]
                   ELSE EmptyObject)
        withKeyAgreement ==
            [did EXCEPT !.verificationMethod = Append(@,
                encodeVerificationMethodToMultiKey(uri, encryptionKeyId,
                    decodeMultikeyVerificationMethod(input.keyAgreement[1])))]
            @@ [keyAgreement |-> <<encryptionKeyId>>]
    IN  IF invalid # "" THEN Thrown(invalid)
        ELSE IF input.keyAgreement # None THEN Returned(withKeyAgreement)
        ELSE Returned(did)

\* parseDocumentFromLightDid from the components parse(uri) returned on.
parseDocumentFromComponents(uri, p, failIfFragmentPresent) ==
    LET keyType == lightDidEncodingToVerificationKeyType[p.authKeyTypeEncoding]
        publicKey == decodeAddress(p.address)
        authentication ==
            <<encodeVerificationMethodToMultiKey(uri, authenticationKeyId,
                [keyType |-> keyType, publicKey |-> publicKey])>>
        details == deserializeAdditionalLightDidDetails(p.encodedDetails[1], p.version)
    IN  IF p.type # "light" THEN Thrown("DidError")
        ELSE IF p.fragment # None /\ failIfFragmentPresent THEN Thrown("DidError")
        ELSE IF p.authKeyTypeEncoding \notin DOMAIN lightDidEncodingToVerificationKeyType
        THEN Thrown("DidError")
        ELSE IF p.encodedDetails = None
        THEN createLightDidDocument(CreateDocumentInput(authentication, None, None))
        ELSE IF details.error # "" THEN Thrown(details.error)
        ELSE createLightDidDocument(
                CreateDocumentInput(authentication, details.value[1].keyAgreement,
                                    details.value[1].service))

parseDocumentFromLightDid(uri, failIfFragmentPresent) ==
    IF parse(uri).error # "" THEN Thrown(parse(uri).error)
    ELSE parseDocumentFromComponents(uri, parse(uri).value[1], failIfFragmentPresent)

-----------------------------------------------------------------------------
(* On-chain data as the chain adapter hands it to the resolver             *)

DID_JSON == "application/did+json"
DID_JSON_LD == "application/did+ld+json"
DID_CBOR == "application/did+cbor"

W3C_DID_CONTEXT_URL == "https://www.w3.org/ns/did/v1"
KILT_DID_CONTEXT_URL == "ipfs://QmU7QkuTCPz7NmD5bD7Z7mQVz2UsSPaEK58B5sYnjnPRNW"

ServiceEndpoint(name) ==
    [ id |-> Fragment(name), type |-> <<"messaging">>,
      serviceEndpoint |-> <<"https://example.com">> ]

\* The Option<RawDidLinkedInfo> the runtime call did.query answers with.
RawDidLinkedInfo(identifier, details) ==
    [identifier |-> identifier, details |-> details]

\* linkedInfoFromChain: the DID document of the linked info, with the
\* authentication key and the service stored for the identifier.
linkedInfoFromChain(raw) ==
    LET uri == FullUri(raw.identifier, None)
    IN  [document |->
            [ id |-> uri,
              authentication |-> <<authenticationKeyId>>,
              verificationMethod |->
                <<encodeVerificationMethodToMultiKey(uri, authenticationKeyId,
                    [keyType |-> "ed25519",
                     publicKey |-> <<"pk", raw.identifier, raw.details>>])>>,
              service |-> <<ServiceEndpoint("svc")>> ]]

-----------------------------------------------------------------------------
(* DidResolverV2: the synchronous pieces                                   *)

isValidContentType_any(input) == TRUE

isValidContentType(input) == input \in {DID_JSON, DID_JSON_LD, DID_CBOR}

\* The value of `document` after .then(linkedInfoFromChain).catch(...):
\* a rejected query, an empty Option and undecodable info all give undefined.
linkedInfoDocument_rethrow(response) ==
    IF response.status = "some" THEN Returned(Some(linkedInfoFromChain(response.raw).document))
    ELSE IF response.status = "none" THEN Returned(None)
    ELSE Thrown("LinkedInfoQueryError")

linkedInfoDocument(response) ==
    IF response.status = "some"
    THEN Returned(Some(linkedInfoFromChain(response.raw).document))
    ELSE Returned(None)

\* Whether resolveInternal returns the on-chain document right away.
returnsFullDocument_anyType(type, document) == document # None

returnsFullDocument_never(type, document) == FALSE

returnsFullDocument(type, document) == type = "full" /\ document # None

\* resolveInternal from the answer of the deleted-DID index on: the
\* InternalResolutionResult (Some), null (None), or a thrown error.
resolveInternalAfterBlacklist_lightFirst(did, document, isFullDidDeleted) ==
    LET type == parse(did).value[1].type
        lightDocument == parseDocumentFromLightDid(did, FALSE)
    IN  IF type = "light" /\ lightDocument.error = ""
        THEN Returned(Some([ document |-> lightDocument.value[1],
                             documentMetadata |-> EmptyObject ]))
        ELSE IF isFullDidDeleted
        THEN Returned(Some([documentMetadata |-> [deactivated |-> TRUE]]))
        ELSE IF type = "full" THEN Returned(None)
        ELSE Thrown(lightDocument.error)

resolveInternalAfterBlacklist_idOnly(did, document, isFullDidDeleted) ==
    LET type == parse(did).value[1].type
        lightDocument == parseDocumentFromLightDid(did, FALSE)
    IN  IF isFullDidDeleted
        THEN Returned(Some([documentMetadata |-> [deactivated |-> TRUE]]))
        ELSE IF type = "full" THEN Returned(None)
        ELSE IF lightDocument.error # "" THEN Thrown(lightDocument.error)
        ELSE IF document # None
        THEN Returned(Some([ documentMetadata |-> [canonicalId |-> getFullDidUri(did)],
                             document |-> [id |-> did] ]))
        ELSE Returned(Some([ document |-> [id |-> did],
                             documentMetadata |-> EmptyObject ]))

resolveInternalAfterBlacklist_fullFirst(did, document, isFullDidDeleted) ==
    LET type == parse(did).value[1].type
        lightDocument == parseDocumentFromLightDid(did, FALSE)
    IN  IF type = "full" THEN Returned(None)
        ELSE IF isFullDidDeleted
        THEN Returned(Some([documentMetadata |-> [deactivated |-> TRUE]]))
        ELSE IF lightDocument.error # "" THEN Thrown(lightDocument.error)
        ELSE IF document # None
        THEN Returned(Some([ documentMetadata |-> [canonicalId |-> getFullDidUri(did)],
                             document |-> [id |-> did] ]))
        ELSE Returned(Some([ document |-> lightDocument.value[1],
                             documentMetadata |-> EmptyObject ]))

resolveInternalAfterBlacklist(did, document, isFullDidDeleted) ==
    LET type == parse(did).value[1].type
        lightDocument == parseDocumentFromLightDid(did, FALSE)
    IN  IF isFullDidDeleted
        THEN Returned(Some([documentMetadata |-> [deactivated |-> TRUE]]))
        ELSE IF type = "full" THEN Returned(None)
        ELSE IF lightDocument.error # "" THEN Thrown(lightDocument.error)
        ELSE IF document # None
        THEN Returned(Some([ documentMetadata |-> [canonicalId |-> getFullDidUri(did)],
                             document |-> [id |-> did] ]))
        ELSE Returned(Some([ document |-> lightDocument.value[1],
                             documentMetadata |-> EmptyObject ]))

invalidDidResult_notFound ==
    [ didResolutionMetadata |-> [error |-> "notFound"],
      didDocumentMetadata |-> EmptyObject ]

invalidDidResult ==
    [ didResolutionMetadata |-> [error |-> "invalidDid"],
      didDocumentMetadata |-> EmptyObject ]

resolveResult_nullAsEmpty(resolutionResult) ==
    IF resolutionResult = None
    THEN [ didResolutionMetadata |-> EmptyObject,
           didDocumentMetadata |-> EmptyObject ]
    ELSE [ didResolutionMetadata |-> EmptyObject,
           didDocumentMetadata |-> resolutionResult[1].documentMetadata ]
         @@ (IF "document" \in DOMAIN resolutionResult[1]
             THEN [didDocument |-> resolutionResult[1].document]
             ELSE EmptyObject)

\* resolve from the completion of resolveInternal on.
resolveResult(resolutionResult) ==
    IF resolutionResult = None
    THEN [ didResolutionMetadata |-> [error |-> "notFound"],
           didDocumentMetadata |-> EmptyObject ]
    ELSE [ didResolutionMetadata |-> EmptyObject,
           didDocumentMetadata |-> resolutionResult[1].documentMetadata ]
         @@ (IF "document" \in DOMAIN resolutionResult[1]
             THEN [didDocument |-> resolutionResult[1].document]
             ELSE EmptyObject)

\* JSON.stringify, cbor.encode and Buffer.from of a value.
jsonStringify(value) == [json |-> value]
cborBuffer(value) == [cbor |-> value]
withContext(object) ==
    ("@context" :> <<W3C_DID_CONTEXT_URL, KILT_DID_CONTEXT_URL>>) @@ object

representationResult_contextInJson(accept, resolved) ==
    LET metadata == [ didResolutionMetadata |-> resolved.didResolutionMetadata,
                      didDocumentMetadata |-> resolved.didDocumentMetadata ]
        didDocument == resolved.didDocument
        bufferInput ==
            IF accept = DID_CBOR THEN cborBuffer(didDocument)
            ELSE jsonStringify(withContext(didDocument))
    IN  IF "didDocument" \notin DOMAIN resolved THEN metadata
        ELSE metadata @@ [didDocumentStream |-> bufferInput]

\* resolveRepresentation from the result of resolve on.
representationResult(accept, resolved) ==
    LET metadata == [ didResolutionMetadata |-> resolved.didResolutionMetadata,
                      didDocumentMetadata |-> resolved.didDocumentMetadata ]
        didDocument == resolved.didDocument
        bufferInput ==
            IF accept = DID_JSON THEN jsonStringify(didDocument)
            ELSE IF accept = DID_JSON_LD THEN jsonStringify(withContext(didDocument))
            ELSE cborBuffer(didDocument)
    IN  IF "didDocument" \notin DOMAIN resolved THEN metadata
        ELSE metadata @@ [didDocumentStream |-> bufferInput]

\* Array.prototype.find: the first element whose id is the fragment.
RECURSIVE find(_, _)
find(list, fragment) ==
    IF list = <<>> THEN None
    ELSE IF Head(list).id = fragment THEN Some(Head(list))
    ELSE find(Tail(list), fragment)

dereferenceInternal_noMetadata(fragment, resolved) ==
    LET hasDocument == "didDocument" \in DOMAIN resolved
    IN  Returned([contentMetadata |-> EmptyObject]
                 @@ (IF hasDocument THEN [contentStream |-> resolved.didDocument]
                     ELSE EmptyObject))

\* dereferenceInternal from the result of resolve on.
dereferenceInternal(fragment, resolved) ==
    LET hasDocument == "didDocument" \in DOMAIN resolved
        didDocument == resolved.didDocument
        verificationMethod ==
            IF hasDocument THEN find(didDocument.verificationMethod, fragment) ELSE None
        service ==
            IF hasDocument /\ "service" \in DOMAIN didDocument
            THEN find(didDocument.service, fragment) ELSE None
        dereferencedResource ==
            IF verificationMethod # None THEN verificationMethod ELSE service
    IN  IF fragment = None
        THEN Returned([contentMetadata |-> resolved.didDocumentMetadata]
                      @@ (IF hasDocument THEN [contentStream |-> didDocument]
                          ELSE EmptyObject))
        ELSE IF hasDocument /\ "verificationMethod" \notin DOMAIN didDocument
        THEN Thrown("TypeError")
        ELSE Returned([contentMetadata |-> EmptyObject]
                      @@ (IF dereferencedResource # None
                          THEN [contentStream |-> dereferencedResource[1]]
                          ELSE EmptyObject))

\* The content type dereference answers in.
dereferenceContentType_asAccepted(accept) == accept

dereferenceContentType(accept) ==
    IF isValidContentType(accept) THEN accept ELSE DID_JSON

invalidDidUrlResult ==
    [ dereferencingMetadata |-> [error |-> "invalidDidUrl"],
      contentMetadata |-> EmptyObject ]

\* dereference from the result of dereferenceInternal on.
dereferenceResult(contentType, resolutionResult) ==
    LET contentStream == resolutionResult.contentStream
        stream == IF contentType = DID_JSON THEN contentStream
                  ELSE IF contentType = DID_JSON_LD THEN withContext(contentStream)
                  ELSE cborBuffer(contentStream)
    IN  IF "contentStream" \notin DOMAIN resolutionResult
        THEN [ dereferencingMetadata |-> [error |-> "notFound"],
               contentMetadata |-> resolutionResult.contentMetadata ]
        ELSE [ dereferencingMetadata |-> [contentType |-> contentType],
               contentMetadata |-> resolutionResult.contentMetadata,
               contentStream |-> stream ]

-----------------------------------------------------------------------------
(* The calls made to the resolver                                          *)

AcceptValues == {DID_JSON, DID_JSON_LD, DID_CBOR, "text/html"}

keyAgreementKey ==
    [type |-> "Multikey", publicKeyMultibase |-> <<"z", "x25519", <<"pk", 0>>>>]

\* Details as createLightDidDocument encodes them, and a string that is
\* no base58 multibase string.
EncodedDetails ==
    serializeAdditionalLightDidDetails(
        Some(keyAgreementKey), Some(<<ServiceEndpoint("svc")>>))[1]
UndecodableDetails ==
    [ multibase |-> "?", serializationVersion |-> 0,
      serialized |-> cborEncode(EmptyObject) ]

Fragments ==
    {None, authenticationKeyId, Fragment("svc"), Fragment("missing")}

\* The DIDs of an address: its full DID, and light DIDs with either key
\* type code, an unknown code, encoded details and undecodable details.
Dids(a) ==
    { FullUri(a, None), LightUri("00", a, None, None), LightUri("01", a, None, None),
      LightUri("02", a, None, None), LightUri("01", a, Some(EncodedDetails), None),
      LightUri("01", a, Some(UndecodableDetails), None) }

MalformedUris == { [FullUri(1, None) EXCEPT !.method = "web"], FullUri(0, None) }

\* resolve takes a DID: a fragment makes the input invalid.
DidInputs ==
    UNION { Dids(a) : a \in Addresses }
    \cup { [FullUri(a, None) EXCEPT !.fragment = authenticationKeyId] : a \in Addresses }
    \cup MalformedUris

DidUrls ==
    { [d EXCEPT !.fragment = f] :
        d \in UNION { Dids(a) \ {LightUri("00", a, None, None)} : a \in Addresses },
        f \in Fragments }
    \cup MalformedUris

Calls ==
    { [op |-> "resolve", didUrl |-> u, accept |-> DID_JSON] : u \in DidInputs }
    \cup { [op |-> "resolveRepresentation", didUrl |-> u, accept |-> a] :
             u \in DidInputs, a \in AcceptValues }
    \cup { [op |-> "dereference", didUrl |-> u, accept |-> a] :
             u \in DidUrls, a \in AcceptValues }

-----------------------------------------------------------------------------
(* State                                                                   *)

VARIABLES
    didStore,       \* chain: the DID details stored for an address: 0 none,
                    \* 1 the details of its full DID
    didBlacklist,   \* chain: the addresses whose full DID was deleted
    pc,             \* where the current call is
    call,           \* the current call: operation, DID (URL) and accept
    linkedInfo,     \* the answer the linked-info query of the call got
    document,       \* resolveInternal's `document` once that answer is in
    deleted,        \* the answer the deleted-DID index query of the call got
    queries,        \* the chain queries the call has issued, in order
    outcome,        \* how the call completed, once it has
    resolveCompletion,  \* how the resolve(did) the call made completed
    stable,         \* the chain has not changed since the call began
    previous,       \* the preceding call's outcome when it had the same input
    codecPc,        \* light DID codec: where its current use is
    codecInput,     \* light DID codec: the operation and its arguments
    created,        \* how createLightDidDocument completed, once it has
    parsed,         \* how parseDocumentFromLightDid completed, once it has
    credentialPc,   \* credentialFromChain: where the current call is
    credentialCall, \* credentialFromChain: the credential id and the entry
    blockFetches,   \* the block queries the call has issued
    fetchedBlock,   \* the answer the block query of the call got
    credentialOutcome,  \* how the call completed, once it has
    held,           \* the chain states of the call's DID that held since the
                    \* call began and before it completed
    batchPc,        \* credentialsFromChain: where the current call is
    batchCall,      \* credentialsFromChain: the call's argument
    tasks,          \* the reconstructions the call started, in input order
    settled,        \* the reconstructions that completed, in that order
    batchFetches,   \* the block queries the call has issued, in order
    batchOutcome,   \* how the call completed, once it has
    flattenInput,   \* flattenCalls: the call it is applied to
    flattened,      \* flattenCalls: what it returned, once it has
    specVersion,    \* type bundle: the runtime spec version looked up
    selectedTypes   \* type bundle: the type sets selected for that version

resolverVars ==
    << didStore, didBlacklist, pc, call, linkedInfo, document, deleted,
       queries, outcome, resolveCompletion, stable, previous, held >>

codecVars == << codecPc, codecInput, created, parsed >>

credentialVars ==
    << credentialPc, credentialCall, blockFetches, fetchedBlock, credentialOutcome >>

batchVars ==
    << batchPc, batchCall, tasks, settled, batchFetches, batchOutcome >>

flattenVars == << flattenInput, flattened >>

bundleVars == << specVersion, selectedTypes >>

otherVars == << batchVars, flattenVars, bundleVars >>

vars == << resolverVars, codecVars, credentialVars, otherVars >>

chain == << didStore, didBlacklist >>

NoAnswer == [status |-> "pending", raw |-> RawDidLinkedInfo(0, 0)]

\* The DID resolve is called with: dereference strips the fragment.
resolvedDid(c) ==
    IF c.op = "dereference" THEN parse(c.didUrl).value[1].did ELSE c.didUrl

\* The completion of the call given the completion of its resolve(did).
complete(c, resolved) ==
    IF resolved.error # "" THEN resolved
    ELSE IF c.op = "resolve" THEN resolved
    ELSE IF c.op = "resolveRepresentation"
    THEN Returned(representationResult(c.accept, resolved.value[1]))
    ELSE LET contentType == dereferenceContentType(c.accept)
             internal == dereferenceInternal(parse(c.didUrl).value[1].fragment,
                                             resolved.value[1])
         IN  IF internal.error # "" THEN internal
             ELSE Returned(dereferenceResult(contentType, internal.value[1]))

earlyReturn_memo(c) ==
    IF pc = "done" /\ c = call /\ outcome[1].error = "" THEN outcome[1].value
    ELSE IF c.op = "resolveRepresentation" /\ ~isValidContentType(c.accept)
    THEN Some([ didResolutionMetadata |-> [error |-> "representationNotSupported"],
                didDocumentMetadata |-> EmptyObject ])
    ELSE IF c.op = "dereference" /\ ~validateUri(c.didUrl, "Any")
    THEN Some(invalidDidUrlResult)
    ELSE IF ~validateUri(resolvedDid(c), "Did")
    THEN complete(c, Returned(invalidDidResult)).value
    ELSE None

\* What the call returns before it issues any query, if it does.
earlyReturn(c) ==
    IF c.op = "resolveRepresentation" /\ ~isValidContentType(c.accept)
    THEN Some([ didResolutionMetadata |-> [error |-> "representationNotSupported"],
                didDocumentMetadata |-> EmptyObject ])
    ELSE IF c.op = "dereference" /\ ~validateUri(c.didUrl, "Any")
    THEN Some(invalidDidUrlResult)
    ELSE IF ~validateUri(resolvedDid(c), "Did")
    THEN complete(c, Returned(invalidDidResult)).value
    ELSE None

\* How the resolve(did) of the call completes before any query, if the call
\* gets to it and it does.
earlyResolve(c) ==
    IF c.op = "resolveRepresentation" /\ ~isValidContentType(c.accept) THEN None
    ELSE IF c.op = "dereference" /\ ~validateUri(c.didUrl, "Any") THEN None
    ELSE IF ~validateUri(resolvedDid(c), "Did") THEN Some(Returned(invalidDidResult))
    ELSE None

NoCall == [op |-> "none", didUrl |-> FullUri(0, None), accept |-> DID_JSON]

Init ==
    /\ didStore = [a \in Addresses |-> 0]
    /\ didBlacklist = {}
    /\ pc = "idle"
    /\ call = NoCall
    /\ linkedInfo = NoAnswer
    /\ document = None
    /\ deleted = "notQueried"
    /\ queries = <<>>
    /\ outcome = None
    /\ resolveCompletion = None
    /\ stable = TRUE
    /\ previous = None
    /\ codecPc = "idle"
    /\ codecInput = [op |-> "none"]
    /\ created = None
    /\ parsed = None
    /\ credentialPc = "idle"
    /\ credentialCall = [op |-> "none"]
    /\ blockFetches = <<>>
    /\ fetchedBlock = [status |-> "pending"]
    /\ credentialOutcome = None
    /\ held = {}
    /\ batchPc = "idle"
    /\ batchCall = [op |-> "none"]
    /\ tasks = <<>>
    /\ settled = <<>>
    /\ batchFetches = <<>>
    /\ batchOutcome = None
    /\ flattenInput = None
    /\ flattened = None
    /\ specVersion = None
    /\ selectedTypes = None

\* The state of the chain for the DID of an address.
chainState(address) ==
    [details |-> didStore[address], deleted |-> address \in didBlacklist]

\* The synchronous start of a call, up to its first await.
Start(c) ==
    /\ call' = c
    /\ stable' = TRUE
    /\ linkedInfo' = NoAnswer
    /\ document' = None
    /\ deleted' = "notQueried"
    /\ IF earlyReturn(c) # None
       THEN /\ pc' = "done"
            /\ outcome' = Some(Returned(earlyReturn(c)[1]))
            /\ resolveCompletion' = earlyResolve(c)
            /\ queries' = <<>>
            /\ held' = {}
       ELSE /\ pc' = "awaitLinkedInfo"
            /\ outcome' = None
            /\ resolveCompletion' = None
            /\ queries' = <<[query |-> "did.query", key |-> toChain(resolvedDid(c))]>>
            /\ held' = {chainState(toChain(resolvedDid(c)))}
    /\ UNCHANGED << chain, codecVars, credentialVars, otherVars >>

Invoke(c) ==
    /\ pc = "idle"
    /\ previous' = None
    /\ Start(c)

\* The caller has taken the outcome; nothing of the call is kept.
Return ==
    /\ pc = "done"
    /\ pc' = "idle"
    /\ call' = NoCall
    /\ linkedInfo' = NoAnswer
    /\ document' = None
    /\ deleted' = "notQueried"
    /\ queries' = <<>>
    /\ outcome' = None
    /\ resolveCompletion' = None
    /\ stable' = TRUE
    /\ previous' = None
    /\ held' = {}
    /\ UNCHANGED << chain, codecVars, credentialVars, otherVars >>

\* Whether every query of the finished call was answered by the chain.
Answered ==
    /\ linkedInfo.status \in {"pending", "some", "none"}
    /\ deleted # "rejected"

\* resolve is called once more with the same DID.
Reinvoke ==
    /\ pc = "done"
    /\ call.op = "resolve"
    /\ previous' = Some([outcome |-> outcome[1], stable |-> stable, answered |-> Answered])
    /\ Start(call)

\* What did.query(address) can answer in the current chain state.
LinkedInfoAnswers(address) ==
    { IF didStore[address] > 0
      THEN [status |-> "some", raw |-> RawDidLinkedInfo(address, didStore[address])]
      ELSE [NoAnswer EXCEPT !.status = "none"] }
    \cup { [NoAnswer EXCEPT !.status = "rejected"] }
    \cup (IF didStore[address] > 0
          THEN { [NoAnswer EXCEPT !.status = "undecodable"] } ELSE {})

\* The answer of the linked-info query arrives: resolveInternal goes on to
\* its return of the full document or to the deleted-DID index query.
LinkedInfoAnswer ==
    /\ pc = "awaitLinkedInfo"
    /\ \E response \in LinkedInfoAnswers(toChain(resolvedDid(call))) :
        LET did == resolvedDid(call)
            doc == linkedInfoDocument(response)
        IN  /\ linkedInfo' = response
            /\ IF doc.error # ""
               THEN /\ pc' = "done"
                    /\ resolveCompletion' = Some(doc)
                    /\ outcome' = Some(complete(call, doc))
                    /\ UNCHANGED << document, queries >>
               ELSE IF returnsFullDocument(parse(did).value[1].type, doc.value[1])
               THEN /\ pc' = "done"
                    /\ resolveCompletion' = Some(Returned(resolveResult(
                            Some([ document |-> doc.value[1][1],
                                   documentMetadata |-> EmptyObject ]))))
                    /\ outcome' = Some(complete(call, resolveCompletion'[1]))
                    /\ document' = doc.value[1]
                    /\ UNCHANGED queries
               ELSE /\ pc' = "awaitBlacklist"
                    /\ document' = doc.value[1]
                    /\ queries' = Append(queries,
                            [query |-> "did.didBlacklist", key |-> toChain(did)])
                    /\ UNCHANGED << outcome, resolveCompletion >>
    /\ UNCHANGED << chain, call, deleted, stable, previous, held, codecVars, credentialVars, otherVars >>

\* The answer of the deleted-DID index query arrives: the call completes.
BlacklistAnswer ==
    /\ pc = "awaitBlacklist"
    /\ \E answer \in { IF toChain(resolvedDid(call)) \in didBlacklist
                       THEN "some" ELSE "none", "rejected" } :
        LET internal == resolveInternalAfterBlacklist(
                            resolvedDid(call), document, answer = "some")
        IN  /\ deleted' = answer
            /\ resolveCompletion' = Some(
                 IF answer = "rejected" THEN Thrown("DeletedIndexQueryError")
                 ELSE IF internal.error # "" THEN internal
                 ELSE Returned(resolveResult(internal.value[1])))
            /\ outcome' = Some(complete(call, resolveCompletion'[1]))
    /\ pc' = "done"
    /\ UNCHANGED << chain, call, linkedInfo, document, queries, stable, previous, held,
                    codecVars, credentialVars, otherVars >>

\* The chain states of the DID of a call in progress, once the chain state
\* of an address has changed.
heldAfter(address, state) ==
    IF pc \in {"awaitLinkedInfo", "awaitBlacklist"}
       /\ address = toChain(resolvedDid(call))
    THEN held \cup {state}
    ELSE held

\* The chain: a full DID is created and later deleted by its owner; a
\* deleted DID stays in the deleted-DID index and is never created again.
CreateFullDid(address) ==
    /\ didStore[address] = 0
    /\ address \notin didBlacklist
    /\ didStore' = [didStore EXCEPT ![address] = 1]
    /\ stable' = (pc = "idle")
    /\ held' = heldAfter(address, [details |-> 1, deleted |-> FALSE])
    /\ UNCHANGED << didBlacklist, pc, call, linkedInfo, document, deleted,
                    queries, outcome, resolveCompletion, previous, codecVars, credentialVars, otherVars >>

DeleteFullDid(address) ==
    /\ didStore[address] > 0
    /\ didStore' = [didStore EXCEPT ![address] = 0]
    /\ didBlacklist' = didBlacklist \cup {address}
    /\ stable' = (pc = "idle")
    /\ held' = heldAfter(address, [details |-> 0, deleted |-> TRUE])
    /\ UNCHANGED << pc, call, linkedInfo, document, deleted, queries, outcome,
                    resolveCompletion, previous, codecVars, credentialVars, otherVars >>

Next ==
    \/ \E c \in Calls : Invoke(c)
    \/ Reinvoke
    \/ Return
    \/ LinkedInfoAnswer
    \/ BlacklistAnswer
    \/ \E a \in Addresses : CreateFullDid(a)
    \/ \E a \in Addresses : DeleteFullDid(a)

Spec == Init /\ [][Next]_vars

-----------------------------------------------------------------------------
(* The uses made of the light DID codec                                    *)

AuthenticationKeyTypes == {"sr25519", "ed25519", "ecdsa", "x25519"}
KeyAgreementKeyTypes == {"x25519", "ed25519"}

\* A NewVerificationMethod holding a key of a type for an address.
NewVerificationMethod(keyType, address) ==
    [type |-> "Multikey", publicKeyMultibase |-> <<"z", keyType, <<"pk", address>>>>]

\* The lists of service endpoints of an input: none, the empty list, lists
\* of one and two endpoints, and lists with a reserved id.
ServiceLists ==
    { None, Some(<<>>), Some(<<ServiceEndpoint("svc")>>),
      Some(<<ServiceEndpoint("svc"), ServiceEndpoint("other")>>),
      Some(<<ServiceEndpoint("authentication")>>),
      Some(<<ServiceEndpoint("svc"), ServiceEndpoint("encryption")>>) }

CreateDocumentInputs ==
    { CreateDocumentInput(<<NewVerificationMethod(t, a)>>, k, s) :
        t \in AuthenticationKeyTypes, a \in Addresses,
        k \in {None} \cup { Some(NewVerificationMethod(kt, 0)) : kt \in KeyAgreementKeyTypes },
        s \in ServiceLists }

\* Details in the serialization of earlier releases (types and urls), with
\* another serialization version, and with nothing in them.
LegacyDetails ==
    base58Encode(0, cborEncode(
        [s |-> << [id |-> "svc", types |-> <<"messaging">>,
                   urls |-> <<"https://example.com">>] >>]))
OtherSerializationDetails ==
    base58Encode(1, cborEncode([e |-> keyAgreementKey]))

DetailsInputs ==
    { None, Some(EncodedDetails), Some(UndecodableDetails), Some(LegacyDetails),
      Some(OtherSerializationDetails) }

\* The URIs handed to parseDocumentFromLightDid.
ParseInputs ==
    { LightUri(enc, a, d, f) : enc \in {"00", "01", "02"}, a \in Addresses,
                               d \in DetailsInputs, f \in {None, Fragment("svc")} }
    \cup { FullUri(a, f) : a \in Addresses, f \in {None, Fragment("svc")} }
    \cup MalformedUris

\* The versions parse reports of a URI: the supported one and another.
UriVersions == {1, 2}

CodecIdle ==
    /\ codecPc' = "idle"
    /\ codecInput' = [op |-> "none"]
    /\ created' = None
    /\ parsed' = None

\* createLightDidDocument(input)
Create(input) ==
    /\ codecPc = "idle"
    /\ codecPc' = "created"
    /\ codecInput' = [op |-> "create", input |-> input]
    /\ created' = Some(createLightDidDocument(input))
    /\ parsed' = None
    /\ UNCHANGED << resolverVars, credentialVars, otherVars >>

\* parseDocumentFromLightDid(document.id) of the document just created
ParseCreated ==
    /\ codecPc = "created"
    /\ created[1].error = ""
    /\ codecPc' = "parsed"
    /\ parsed' = Some(parseDocumentFromLightDid(created[1].value[1].id, TRUE))
    /\ UNCHANGED << codecInput, created, resolverVars, credentialVars, otherVars >>

\* parseDocumentFromLightDid(uri, failIfFragmentPresent), parse(uri)
\* reporting the given version
Parse(uri, version, failIfFragmentPresent) ==
    /\ codecPc = "idle"
    /\ codecPc' = "parsed"
    /\ codecInput' = [ op |-> "parse", uri |-> uri, version |-> version,
                       failIfFragmentPresent |-> failIfFragmentPresent ]
    /\ created' = None
    /\ parsed' = Some(
          IF parse(uri).error # "" THEN Thrown(parse(uri).error)
          ELSE parseDocumentFromComponents(
                  uri, [parse(uri).value[1] EXCEPT !.version = version],
                  failIfFragmentPresent))
    /\ UNCHANGED << resolverVars, credentialVars, otherVars >>

CodecReturn ==
    /\ codecPc # "idle"
    /\ CodecIdle
    /\ UNCHANGED << resolverVars, credentialVars, otherVars >>

LightDidNext ==
    \/ \E input \in CreateDocumentInputs : Create(input)
    \/ ParseCreated
    \/ \E uri \in ParseInputs, version \in UriVersions, f \in BOOLEAN :
          Parse(uri, version, f)
    \/ CodecReturn

LightDidSpec == Init /\ [][LightDidNext]_vars

-----------------------------------------------------------------------------
(* PublicCredential.chain: the reconstruction of a public credential       *)

\* The calls of an extrinsic: publicCredentials.add with the encoded
\* credential, did.submitDidCall with the DID and the call it authorizes,
\* the utility batches with their calls, and a call of another kind.
AddCall(credential) == [kind |-> "publicCredentials.add", credential |-> credential]
SubmitDidCall(did, authorized) ==
    [kind |-> "did.submitDidCall", did |-> did, call |-> authorized]
BatchCall(kind, calls) == [kind |-> kind, calls |-> calls]
OtherCall == [kind |-> "balances.transfer"]

BatchKinds == {"utility.batch", "utility.batchAll", "utility.forceBatch"}

\* call.args[0].flatMap((c) => flattenCalls(api, c)) of a list of calls
RECURSIVE flattenCalls(_), flatMapFlattenCalls(_)
flatMapFlattenCalls(calls) ==
    IF calls = <<>> THEN <<>>
    ELSE flattenCalls(Head(calls)) \o flatMapFlattenCalls(Tail(calls))

flattenCalls_shallow(c) ==
    IF c.kind \in BatchKinds THEN c.calls ELSE <<c>>

flattenCalls(c) ==
    IF c.kind \in BatchKinds THEN flatMapFlattenCalls(c.calls) ELSE <<c>>

\* validateUri of @kiltprotocol/asset-did: whether it returns.
validateAssetDidUri(subject) == subject[1] = "did:asset"

\* The error credentialInputFromChain throws or the input it returns.
credentialInputFromChain(credential) ==
    IF ~validateAssetDidUri(credential.subject) THEN Thrown("InvalidAssetDidError")
    ELSE IF ~cborDecodes(credential.claims) THEN Thrown("CborDecodeError")
    ELSE Returned([ claims |-> cborDecode(credential.claims),
                    cTypeHash |-> credential.ctypeHash,
                    delegationId |-> credential.authorization,
                    subject |-> credential.subject ])

\* The digest getIdForCredential hashes a credential input to. A hash is not
\* injective: the model has one collision, of the claims "c3" with "c1".
digest(credentialInput) ==
    IF credentialInput.claims = "c3" THEN [credentialInput EXCEPT !.claims = "c1"]
    ELSE credentialInput

\* getIdForCredential: the hash over the credential input and its attester.
getIdForCredential(credentialInput, attester) ==
    [hash |-> <<digest(credentialInput), attester>>]

didFromChain(did) == FullUri(did, None)

\* The largest and the smallest index of a non-empty set of indices.
LastOf(indices) == CHOOSE i \in indices : \A j \in indices : j <= i
FirstOf(indices) == CHOOSE i \in indices : \A j \in indices : i <= j

retrievePublicCredentialCreationExtrinsicFromBlock_first(credentialId, block) ==
    LET successfulExtrinsics ==
            SelectSeq(block.extrinsics, LAMBDA e : ~e.dispatchError)
        creations ==
            { i \in DOMAIN successfulExtrinsics :
                \E j \in DOMAIN successfulExtrinsics[i].events :
                    /\ successfulExtrinsics[i].events[j].kind = "CredentialStored"
                    /\ successfulExtrinsics[i].events[j].id = credentialId }
    IN  IF creations = {} THEN None
        ELSE Some(successfulExtrinsics[FirstOf(creations)].extrinsic)

\* retrievePublicCredentialCreationExtrinsicFromBlock from the block on:
\* the extrinsic (Some) or null (None).
retrievePublicCredentialCreationExtrinsicFromBlock(credentialId, block) ==
    LET successfulExtrinsics ==
            SelectSeq(block.extrinsics, LAMBDA e : ~e.dispatchError)
        creations ==
            { i \in DOMAIN successfulExtrinsics :
                \E j \in DOMAIN successfulExtrinsics[i].events :
                    /\ successfulExtrinsics[i].events[j].kind = "CredentialStored"
                    /\ successfulExtrinsics[i].events[j].id = credentialId }
    IN  IF creations = {} THEN None
        ELSE Some(successfulExtrinsics[LastOf(creations)].extrinsic)

extractPublicCredentialCreationCallsFromDidCall(c) ==
    SelectSeq(flattenCalls(c), LAMBDA x : x.kind = "publicCredentials.add")

extractDidCallsFromBatchCall(c) ==
    SelectSeq(flattenCalls(c), LAMBDA x : x.kind = "did.submitDidCall")

\* The credential creation calls of a list of DID calls, each with the DID
\* that submitted it.
RECURSIVE credentialCreationCalls(_)
credentialCreationCalls(didCalls) ==
    IF didCalls = <<>> THEN <<>>
    ELSE LET didCall == Head(didCalls)
             publicCredentialCalls ==
                 extractPublicCredentialCreationCallsFromDidCall(didCall.call)
         IN  [ i \in DOMAIN publicCredentialCalls |->
                 [ call |-> publicCredentialCalls[i],
                   submitter |-> didFromChain(didCall.did) ] ]
             \o credentialCreationCalls(Tail(didCalls))

lastRightCredential_notRevoked(credentialId, entry, calls) ==
    LET content == [ i \in DOMAIN calls |->
                       credentialInputFromChain(calls[i].call.credential) ]
        garbage == { i \in DOMAIN calls : content[i].error # "" }
        right == { i \in DOMAIN calls \ garbage :
                     getIdForCredential(content[i].value[1], calls[i].submitter)
                         = credentialId }
    IN  IF garbage # {} THEN Thrown(content[FirstOf(garbage)].error)
        ELSE IF right = {} THEN Thrown("PublicCredentialError")
        ELSE LET credentialInput == content[LastOf(right)].value[1]
                 submitter == calls[LastOf(right)].submitter
             IN  Returned(
                   credentialInput @@
                   [ attester |-> submitter,
                     id |-> getIdForCredential(credentialInput, submitter),
                     blockNumber |-> entry.blockNumber,
                     revoked |-> FALSE ])

\* The last credential of the calls whose id is credentialId, completed with
\* the entry; decoding the credentials of all calls comes first.
lastRightCredential(credentialId, entry, calls) ==
    LET content == [ i \in DOMAIN calls |->
                       credentialInputFromChain(calls[i].call.credential) ]
        garbage == { i \in DOMAIN calls : content[i].error # "" }
        right == { i \in DOMAIN calls \ garbage :
                     getIdForCredential(content[i].value[1], calls[i].submitter)
                         = credentialId }
    IN  IF garbage # {} THEN Thrown(content[FirstOf(garbage)].error)
        ELSE IF right = {} THEN Thrown("PublicCredentialError")
        ELSE LET credentialInput == content[LastOf(right)].value[1]
                 submitter == calls[LastOf(right)].submitter
             IN  Returned(
                   credentialInput @@
                   [ attester |-> submitter,
                     id |-> getIdForCredential(credentialInput, submitter),
                     blockNumber |-> entry.blockNumber,
                     revoked |-> entry.revoked ])

\* credentialFromChain from the extrinsic found in the block on.
credentialFromExtrinsic(credentialId, entry, extrinsic) ==
    IF extrinsic = None THEN Thrown("PublicCredentialError")
    ELSE IF extrinsic[1].kind = "did.submitDidCall"
    THEN lastRightCredential(credentialId, entry,
            credentialCreationCalls(<<extrinsic[1]>>))
    ELSE IF extrinsic[1].kind \in BatchKinds
    THEN lastRightCredential(credentialId, entry,
            credentialCreationCalls(extractDidCallsFromBatchCall(extrinsic[1])))
    ELSE Thrown("PublicCredentialError")

(* The calls of credentialFromChain and the blocks the chain answers with *)

CTypeHash == [cType |-> "hash"]

\* The credentials of the contents, and two that are garbage: a subject
\* that is no asset DID and claims that are no CBOR.
EncodedCredential(content) ==
    [ claims |-> cborEncode(content), ctypeHash |-> CTypeHash,
      authorization |-> None, subject |-> <<"did:asset", "a">> ]
GarbageSubject == [EncodedCredential("c1") EXCEPT !.subject = <<"asset", "a">>]
GarbageClaims == [EncodedCredential("c1") EXCEPT !.claims = [bytes |-> "ff"]]

\* The id of the credential of a content added by the DID of an address.
CredentialId(content, address) ==
    getIdForCredential(credentialInputFromChain(EncodedCredential(content)).value[1],
                       didFromChain(address))

\* The extrinsic calls of the model: DID calls and batches, nested batches,
\* with one or several credentials, with garbage, or with none.
ExtrinsicCalls ==
    { SubmitDidCall(1, AddCall(EncodedCredential("c1"))),
      SubmitDidCall(2, AddCall(EncodedCredential("c1"))),
      SubmitDidCall(1, BatchCall("utility.batch",
          <<AddCall(EncodedCredential("c1")), AddCall(EncodedCredential("c2"))>>)),
      SubmitDidCall(1, BatchCall("utility.forceBatch",
          <<AddCall(GarbageSubject), AddCall(EncodedCredential("c1"))>>)),
      SubmitDidCall(1, AddCall(GarbageClaims)),
      SubmitDidCall(1, OtherCall),
      BatchCall("utility.batch",
          << SubmitDidCall(2, AddCall(EncodedCredential("c1"))),
             SubmitDidCall(1, AddCall(EncodedCredential("c1"))) >>),
      BatchCall("utility.batchAll",
          << SubmitDidCall(1, AddCall(EncodedCredential("c2"))),
             BatchCall("utility.forceBatch",
                << SubmitDidCall(1, AddCall(EncodedCredential("c1"))), OtherCall >>) >>),
      SubmitDidCall(1, BatchCall("utility.batch",
          <<AddCall(EncodedCredential("c1")), AddCall(EncodedCredential("c3"))>>)),
      BatchCall("utility.batch",
          << SubmitDidCall(1, AddCall(EncodedCredential("c3"))),
             SubmitDidCall(1, AddCall(EncodedCredential("c1"))) >>),
      SubmitDidCall(1, BatchCall("utility.forceBatch",
          << AddCall(EncodedCredential("c3")), AddCall(GarbageClaims),
             AddCall(EncodedCredential("c1")) >>)),
      BatchCall("utility.forceBatch", <<AddCall(EncodedCredential("c1"))>>),
      BatchCall("utility.batch", <<>>),
      AddCall(EncodedCredential("c1")),
      OtherCall }

CredentialStored(id) == [kind |-> "CredentialStored", id |-> id]

EventLists ==
    { <<>>, <<[kind |-> "ExtrinsicSuccess"], CredentialStored(CredentialId("c1", 1))>>,
      <<CredentialStored(CredentialId("c2", 1))>> }

Extrinsics ==
    { [extrinsic |-> c, events |-> ev, dispatchError |-> failed] :
        c \in ExtrinsicCalls, ev \in EventLists, failed \in BOOLEAN }

\* The blocks: of no, one and two extrinsics.
Blocks ==
    { [extrinsics |-> <<>>] }
    \cup { [extrinsics |-> <<e>>] : e \in Extrinsics }
    \cup { [extrinsics |-> <<e1, e2>>] : e1 \in Extrinsics, e2 \in Extrinsics }

CredentialEntries ==
    { Some([blockNumber |-> "n", revoked |-> revoked]) : revoked \in BOOLEAN }

CredentialIds == { CredentialId("c1", 1), CredentialId("c2", 1) }

\* credentialFromChain(credentialId, publicCredentialEntry): up to the await
\* of the block.
CredentialFromChain(credentialId, publicCredentialEntry) ==
    /\ credentialPc = "idle"
    /\ credentialCall' = [ op |-> "credentialFromChain", credentialId |-> credentialId,
                           entry |-> publicCredentialEntry[1] ]
    /\ credentialPc' = "awaitBlock"
    /\ blockFetches' = <<publicCredentialEntry[1].blockNumber>>
    /\ fetchedBlock' = [status |-> "pending"]
    /\ credentialOutcome' = None
    /\ UNCHANGED << resolverVars, codecVars, otherVars >>

\* The block the adapter answered with, once the call has worked on it:
\* filter, map and flatMap copy, and each reverse() in place is of a copy.
blockAfterReconstruction(block) == block

\* getBlockByNumber answers with the block, or is rejected.
BlockAnswer ==
    /\ credentialPc = "awaitBlock"
    /\ \E answer \in { [status |-> "block", block |-> b] : b \in Blocks }
                     \cup { [status |-> "rejected"] } :
          /\ fetchedBlock' =
                IF answer.status = "rejected" THEN answer
                ELSE [ status |-> "block", block |-> answer.block,
                       after |-> blockAfterReconstruction(answer.block) ]
          /\ credentialOutcome' = Some(
                IF answer.status = "rejected" THEN Thrown("BlockQueryError")
                ELSE credentialFromExtrinsic(
                        credentialCall.credentialId, credentialCall.entry,
                        retrievePublicCredentialCreationExtrinsicFromBlock(
                            credentialCall.credentialId, answer.block)))
    /\ credentialPc' = "done"
    /\ UNCHANGED << credentialCall, blockFetches, resolverVars, codecVars, otherVars >>

CredentialReturn ==
    /\ credentialPc = "done"
    /\ credentialPc' = "idle"
    /\ credentialCall' = [op |-> "none"]
    /\ blockFetches' = <<>>
    /\ fetchedBlock' = [status |-> "pending"]
    /\ credentialOutcome' = None
    /\ UNCHANGED << resolverVars, codecVars, otherVars >>

CredentialNext ==
    \/ \E id \in CredentialIds, entry \in CredentialEntries :
          CredentialFromChain(id, entry)
    \/ BlockAnswer
    \/ CredentialReturn

CredentialSpec == Init /\ [][CredentialNext]_vars

(* flattenCalls on nested calls *)

MaxNesting == 2

\* The calls that are no batch: a plain call, and a DID call that
\* authorizes a batch.
LeafCalls ==
    { OtherCall,
      SubmitDidCall(1, BatchCall("utility.batch", <<AddCall(EncodedCredential("c1"))>>)) }

\* The lists of up to two of the calls.
ListsOf(calls) ==
    { <<>> } \cup { <<c>> : c \in calls } \cup { <<c, d>> : c \in calls, d \in calls }

\* The kind of an inner batch of the model, by the number of its calls.
InnerBatchKind(calls) ==
    IF Len(calls) = 0 THEN "utility.batch"
    ELSE IF Len(calls) = 1 THEN "utility.batchAll"
    ELSE "utility.forceBatch"

\* The calls nested to a depth at most.
RECURSIVE NestedCalls(_)
NestedCalls(depth) ==
    IF depth = 0 THEN LeafCalls
    ELSE LeafCalls
         \cup { BatchCall(InnerBatchKind(calls), calls) :
                  calls \in ListsOf(NestedCalls(depth - 1)) }

CallTrees ==
    LeafCalls
    \cup { BatchCall(kind, calls) :
             kind \in BatchKinds, calls \in ListsOf(NestedCalls(MaxNesting - 1)) }

FlattenCalls(c) ==
    /\ flattenInput = None
    /\ flattenInput' = Some(c)
    /\ flattened' = Some(flattenCalls(c))
    /\ UNCHANGED << resolverVars, codecVars, credentialVars, batchVars, bundleVars >>

FlattenReturn ==
    /\ flattenInput # None
    /\ flattenInput' = None
    /\ flattened' = None
    /\ UNCHANGED << resolverVars, codecVars, credentialVars, batchVars, bundleVars >>

FlattenNext ==
    \/ \E c \in CallTrees : FlattenCalls(c)
    \/ FlattenReturn

FlattenSpec == Init /\ [][FlattenNext]_vars

(* The type bundle: the type sets by runtime spec version *)

\* typeBundleForPolkadot.types: minmax is [min, max], and max is undefined
\* (None) in the last entry.
typeBundleForPolkadot ==
    [ types |->
        << [minmax |-> <<Some(0), Some(8)>>, types |-> "types8"],
           [minmax |-> <<Some(9), Some(9)>>, types |-> "types9"],
           [minmax |-> <<Some(10), Some(11)>>, types |-> "types10"],
           [minmax |-> <<Some(12), Some(16)>>, types |-> "types12"],
           [minmax |-> <<Some(17), Some(17)>>, types |-> "types17"],
           [minmax |-> <<Some(18), Some(18)>>, types |-> "types18"],
           [minmax |-> <<Some(19), Some(19)>>, types |-> "types19"],
           [minmax |-> <<Some(20), Some(20)>>, types |-> "types20"],
           [minmax |-> <<Some(21), Some(22)>>, types |-> "types21"],
           [minmax |-> <<Some(23), Some(24)>>, types |-> "types23"],
           [minmax |-> <<Some(25), Some(2699)>>, types |-> "types25"],
           [minmax |-> <<Some(2700), Some(10710)>>, types |-> "types2700"],
           [minmax |-> <<Some(10720), Some(10899)>>, types |-> "types10720"],
           [minmax |-> <<Some(10900), None>>, types |-> "types10900"] >> ]

\* The entries of a bundle that @polkadot/types-known selects for a spec
\* version: those whose min and max, where defined, enclose it.
filterVersions(versions, version) ==
    SelectSeq(versions,
              LAMBDA entry :
                  /\ entry.minmax[1] = None \/ version >= entry.minmax[1][1]
                  /\ entry.minmax[2] = None \/ version <= entry.minmax[2][1])

MaxSpecVersion == 10910

\* The types of a runtime of a spec version are looked up in the bundle.
GetSpecTypes(version) ==
    /\ specVersion = None
    /\ specVersion' = Some(version)
    /\ selectedTypes' = Some(filterVersions(typeBundleForPolkadot.types, version))
    /\ UNCHANGED << resolverVars, codecVars, credentialVars, batchVars, flattenVars >>

GetSpecTypesReturn ==
    /\ specVersion # None
    /\ specVersion' = None
    /\ selectedTypes' = None
    /\ UNCHANGED << resolverVars, codecVars, credentialVars, batchVars, flattenVars >>

BundleNext ==
    \/ \E version \in 0..MaxSpecVersion : GetSpecTypes(version)
    \/ GetSpecTypesReturn

BundleSpec == Init /\ [][BundleNext]_vars

(* credentialsFromChain *)

MaxCredentials == 2

\* The error of the chain in an Err result, and its text.
ChainErrors == { [text |-> "CredentialNotFound"], [text |-> "InternalError"] }
toString(chainError) == chainError.text

\* The pairs of an Ok result: the encoded id and the encoded entry.
CredentialPairs ==
    { [ encodedId |-> CredentialId("c1", 1),
        encodedCredentialEntry |-> Some([blockNumber |-> "n", revoked |-> FALSE]) ],
      [ encodedId |-> CredentialId("c2", 1),
        encodedCredentialEntry |-> Some([blockNumber |-> "m", revoked |-> TRUE]) ],
      [ encodedId |-> CredentialId("c1", 1),
        encodedCredentialEntry |-> Some([blockNumber |-> "m", revoked |-> TRUE]) ] }

PublicCredentialEntries ==
    { [isErr |-> TRUE, asErr |-> e] : e \in ChainErrors }
    \cup { [isErr |-> FALSE, asOk |-> pairs] :
             pairs \in UNION { [1..n -> CredentialPairs] : n \in 0..MaxCredentials } }

\* new Error(message), thrown.
ThrownError(message) == [error |-> "Error", message |-> message, value |-> <<>>]

\* What credentialsFromChain throws before anything else, if it does.
errorResult_noText(publicCredentialEntries) ==
    IF publicCredentialEntries.isErr THEN Some(ThrownError("")) ELSE None

errorResult(publicCredentialEntries) ==
    IF publicCredentialEntries.isErr
    THEN Some(ThrownError(toString(publicCredentialEntries.asErr)))
    ELSE None

\* What the block queries of the reconstructions are answered with: blocks
\* with the credential of the content c1, with that of c2 and with garbage,
\* or a rejection.
BlockAnswers ==
    { [ status |-> "block",
        block |-> [extrinsics |->
          << [ extrinsic |-> SubmitDidCall(1, AddCall(EncodedCredential("c1"))),
               events |-> <<CredentialStored(CredentialId("c1", 1))>>,
               dispatchError |-> FALSE ] >>] ],
      [ status |-> "block",
        block |-> [extrinsics |->
          << [ extrinsic |-> SubmitDidCall(1, BatchCall("utility.batch",
                  <<AddCall(EncodedCredential("c1")), AddCall(EncodedCredential("c2"))>>)),
               events |-> << CredentialStored(CredentialId("c1", 1)),
                             CredentialStored(CredentialId("c2", 1)) >>,
               dispatchError |-> FALSE ] >>] ],
      [ status |-> "block",
        block |-> [extrinsics |->
          << [ extrinsic |-> SubmitDidCall(1, AddCall(GarbageClaims)),
               events |-> << CredentialStored(CredentialId("c1", 1)),
                             CredentialStored(CredentialId("c2", 1)) >>,
               dispatchError |-> FALSE ] >>] ],
      [ status |-> "rejected" ] }

\* How credentialFromChain completes once its block query is answered.
credentialFromBlockAnswer(credentialId, entry, answer) ==
    IF answer.status = "rejected" THEN Thrown("BlockQueryError")
    ELSE credentialFromExtrinsic(credentialId, entry,
            retrievePublicCredentialCreationExtrinsicFromBlock(credentialId, answer.block))

\* Promise.all of the promises of the tasks, given the order they settled
\* in: pending (None), rejected with the first rejection to occur, or
\* fulfilled with the values in the order of the promises.
promiseAll_allSettled(promises, settledOrder) ==
    LET rejected == { i \in DOMAIN promises : promises[i][1].error # "" }
    IN  IF \E i \in DOMAIN promises : promises[i] = None THEN None
        ELSE IF rejected # {} THEN Some(promises[FirstOf(rejected)][1])
        ELSE Some(Returned([i \in DOMAIN promises |-> promises[i][1].value[1]]))

promiseAll(promises, settledOrder) ==
    LET rejections == { k \in DOMAIN settledOrder :
                          promises[settledOrder[k]][1].error # "" }
    IN  IF rejections # {} THEN Some(promises[settledOrder[FirstOf(rejections)]][1])
        ELSE IF \E i \in DOMAIN promises : promises[i] = None THEN None
        ELSE Some(Returned([i \in DOMAIN promises |-> promises[i][1].value[1]]))

\* credentialsFromChain(publicCredentialEntries): it throws on an Err
\* result; on an Ok result it starts the reconstruction of every pair, each
\* up to the await of its block.
CredentialsFromChain(publicCredentialEntries) ==
    /\ batchPc = "idle"
    /\ batchCall' = [ op |-> "credentialsFromChain",
                      publicCredentialEntries |-> publicCredentialEntries ]
    /\ settled' = <<>>
    /\ IF errorResult(publicCredentialEntries) # None
       THEN /\ batchPc' = "done"
            /\ batchOutcome' = errorResult(publicCredentialEntries)
            /\ tasks' = <<>>
            /\ batchFetches' = <<>>
       ELSE LET asOk == publicCredentialEntries.asOk
            IN  /\ tasks' = [ i \in DOMAIN asOk |->
                              [ credentialId |-> asOk[i].encodedId,
                                entry |-> asOk[i].encodedCredentialEntry[1],
                                answer |-> [status |-> "pending"],
                                promise |-> None ] ]
                /\ batchFetches' = [ i \in DOMAIN asOk |->
                                       asOk[i].encodedCredentialEntry[1].blockNumber ]
                /\ batchOutcome' = promiseAll([i \in DOMAIN asOk |-> None], <<>>)
                /\ batchPc' = IF batchOutcome' = None THEN "awaitAll" ELSE "done"
    /\ UNCHANGED << resolverVars, codecVars, credentialVars, flattenVars, bundleVars >>

\* The block query of one reconstruction is answered: the reconstruction
\* completes, and with it the call when Promise.all settles. A
\* reconstruction goes on after the call was rejected.
TaskBlockAnswer(i) ==
    /\ batchPc \in {"awaitAll", "done"}
    /\ i \in DOMAIN tasks
    /\ tasks[i].promise = None
    /\ \E answer \in BlockAnswers :
          tasks' = [tasks EXCEPT ![i] =
                      [ credentialId |-> tasks[i].credentialId,
                        entry |-> tasks[i].entry,
                        answer |-> answer,
                        promise |-> Some(credentialFromBlockAnswer(
                            tasks[i].credentialId, tasks[i].entry, answer)) ]]
    /\ settled' = Append(settled, i)
    /\ batchOutcome' = IF batchOutcome # None THEN batchOutcome
                       ELSE promiseAll([j \in DOMAIN tasks' |-> tasks'[j].promise], settled')
    /\ batchPc' = IF batchOutcome' = None THEN "awaitAll" ELSE "done"
    /\ UNCHANGED << batchCall, batchFetches, resolverVars, codecVars, credentialVars,
                    flattenVars, bundleVars >>

\* The caller has taken the outcome; nothing of the call is kept.
CredentialsReturn ==
    /\ batchPc = "done"
    /\ batchPc' = "idle"
    /\ batchCall' = [op |-> "none"]
    /\ tasks' = <<>>
    /\ settled' = <<>>
    /\ batchFetches' = <<>>
    /\ batchOutcome' = None
    /\ UNCHANGED << resolverVars, codecVars, credentialVars, flattenVars, bundleVars >>

CredentialsNext ==
    \/ \E entries \in PublicCredentialEntries : CredentialsFromChain(entries)
    \/ \E i \in 1..MaxCredentials : TaskBlockAnswer(i)
    \/ CredentialsReturn

CredentialsSpec == Init /\ [][CredentialsNext]_vars

-----------------------------------------------------------------------------
(* Properties of the resolver                                              *)

\* The current call is resolve(did) with a DID that passes validateUri.
ResolvesValidDid == call.op = "resolve" /\ validateUri(call.didUrl, "Did")

\* The finished call is resolve of a valid DID of the given variant.
ResolveDone(variant) ==
    /\ pc = "done"
    /\ ResolvesValidDid
    /\ parse(call.didUrl).value[1].type = variant

\* The light DID URI of the call decodes to a document.
LightDidDecodes == parseDocumentFromLightDid(call.didUrl, TRUE).error = ""

NotFoundResult ==
    [ didResolutionMetadata |-> [error |-> "notFound"],
      didDocumentMetadata |-> EmptyObject ]

DeactivatedResult ==
    [ didResolutionMetadata |-> EmptyObject,
      didDocumentMetadata |-> [deactivated |-> TRUE] ]

DocumentResult(metadata, didDocument) ==
    [ didResolutionMetadata |-> EmptyObject,
      didDocumentMetadata |-> metadata,
      didDocument |-> didDocument ]

LinkedInfoQuery(did) == [query |-> "did.query", key |-> did.address]
BlacklistQuery(did) == [query |-> "did.didBlacklist", key |-> did.address]

\* C1: a string that fails DID validation makes resolve return the error
\* invalidDid, and a string that fails DID-URL validation makes dereference
\* return the error invalidDidUrl, both with empty metadata and nothing else,
\* without throwing and without any chain query.
C1_MalformedInputIsMetadata ==
    /\ (call.op = "resolve" /\ ~validateUri(call.didUrl, "Did")) =>
          /\ pc = "done"
          /\ outcome = Some(Returned(
                [ didResolutionMetadata |-> [error |-> "invalidDid"],
                  didDocumentMetadata |-> EmptyObject ]))
          /\ queries = <<>>
    /\ (call.op = "dereference" /\ ~validateUri(call.didUrl, "Any")) =>
          /\ pc = "done"
          /\ outcome = Some(Returned(
                [ dereferencingMetadata |-> [error |-> "invalidDidUrl"],
                  contentMetadata |-> EmptyObject ]))
          /\ queries = <<>>

C1_Witness ==
    /\ pc = "done"
    /\ call.op = "resolve"
    /\ call.didUrl = FullUri(0, None)
    /\ outcome[1].value[1].didResolutionMetadata = [error |-> "invalidDid"]

\* C2: resolve of a full DID whose linked-info query answers with a document
\* returns the document of that answer with empty metadata and no error, and
\* the call has issued the linked-info query only, never the deleted-DID
\* index query.
C2_FullDocumentReturnedBeforeDeletedCheck ==
    (ResolveDone("full") /\ linkedInfo.status = "some") =>
        /\ linkedInfo.raw.identifier = call.didUrl.address
        /\ outcome = Some(Returned(DocumentResult(EmptyObject,
                          linkedInfoFromChain(linkedInfo.raw).document)))
        /\ queries = <<LinkedInfoQuery(call.didUrl)>>
        /\ deleted = "notQueried"

C2_Witness ==
    /\ ResolveDone("full")
    /\ linkedInfo.status = "some"
    /\ call.didUrl.address \in didBlacklist
    /\ "service" \in DOMAIN outcome[1].value[1].didDocument

C4_AbsentFullDidIsNotFound ==
    /\ (ResolveDone("full") /\ linkedInfo.status = "none" /\ deleted = "none") =>
          outcome = Some(Returned(NotFoundResult))
    /\ (pc = "done" /\ ResolvesValidDid /\ outcome = Some(Returned(NotFoundResult))) =>
          deleted = "none"

C4_Witness ==
    /\ ResolveDone("full")
    /\ linkedInfo.status = "none"
    /\ deleted = "none"
    /\ outcome = Some(Returned(NotFoundResult))

\* C5: resolve of a light DID (whose URI decodes) for whose identifier the
\* linked-info query answers with a full DID document, and which is not
\* deleted, returns canonicalId = the full DID URI of the identifier and the
\* id-only document; whenever the query answered with a document, no result
\* of resolve carries a document with verification methods.
C5_MigratedLightDidIsCanonical ==
    /\ (ResolveDone("light") /\ linkedInfo.status = "some" /\ deleted = "none"
            /\ LightDidDecodes) =>
          outcome = Some(Returned(DocumentResult(
              [canonicalId |-> FullUri(call.didUrl.address, None)],
              [id |-> call.didUrl])))
    /\ (ResolveDone("light") /\ linkedInfo.status = "some" /\ outcome[1].error = ""
            /\ "didDocument" \in DOMAIN outcome[1].value[1]) =>
          DOMAIN outcome[1].value[1].didDocument = {"id"}

C5_Witness ==
    /\ ResolveDone("light")
    /\ linkedInfo.status = "some"
    /\ call.didUrl.details = Some(EncodedDetails)
    /\ outcome[1].error = ""
    /\ outcome[1].value[1].didDocumentMetadata =
          [canonicalId |-> FullUri(call.didUrl.address, None)]

C7_NeverThrows == pc = "done" => outcome[1].error = ""

\* What resolve completes with when it has no on-chain document and the
\* deleted-DID index has answered.
WithoutDocument(did, isDeleted) ==
    IF isDeleted THEN Returned(DeactivatedResult)
    ELSE IF did.variant = "full" THEN Returned(NotFoundResult)
    ELSE IF parseDocumentFromLightDid(did, TRUE).error # ""
    THEN Thrown(parseDocumentFromLightDid(did, TRUE).error)
    ELSE Returned(DocumentResult(EmptyObject,
                    parseDocumentFromLightDid(did, TRUE).value[1]))

\* C8: when the linked-info lookup is rejected or cannot be decoded, resolve
\* does not complete with that failure: it has no document, queries the
\* deleted-DID index and, once that has answered, completes as it does when
\* the lookup answers with none: deactivated, or notFound for a full DID, or
\* the reconstructed document for a light DID.
C8_LinkedInfoFailureIsNoDocument ==
    /\ (pc = "done" /\ ResolvesValidDid
            /\ linkedInfo.status \in {"rejected", "undecodable"}) =>
          /\ document = None
          /\ queries = <<LinkedInfoQuery(call.didUrl), BlacklistQuery(call.didUrl)>>
          /\ outcome[1].error # "LinkedInfoQueryError"
    /\ (pc = "done" /\ ResolvesValidDid
            /\ linkedInfo.status \in {"rejected", "undecodable", "none"}
            /\ deleted \in {"some", "none"}) =>
          outcome = Some(WithoutDocument(call.didUrl, deleted = "some"))

C8_Witness ==
    /\ ResolveDone("full")
    /\ linkedInfo.status = "rejected"
    /\ didStore[call.didUrl.address] > 0
    /\ deleted = "none"
    /\ outcome = Some(Returned(NotFoundResult))

\* What resolve completes with on a chain that holds `store` and `blacklist`
\* and answers both queries.
OnChain(did, store, blacklist) ==
    IF did.variant = "full" /\ store[did.address] > 0
    THEN Returned(DocumentResult(EmptyObject,
            linkedInfoFromChain(RawDidLinkedInfo(did.address, store[did.address])).document))
    ELSE IF did.address \notin blacklist /\ did.variant = "light"
            /\ store[did.address] > 0
            /\ parseDocumentFromLightDid(did, TRUE).error = ""
    THEN Returned(DocumentResult([canonicalId |-> FullUri(did.address, None)],
                                 [id |-> did]))
    ELSE WithoutDocument(did, did.address \in blacklist)

\* C9: resolve keeps nothing between calls: every call of a valid DID issues
\* its own linked-info query; a call during which the chain did not change
\* and answered completes with what the chain holds at that time; and two
\* successive calls with the same DID, with no chain change from the start of
\* the first to the end of the second, complete alike.
C9_ResolveIsStateless ==
    /\ (pc = "done" /\ ResolvesValidDid) =>
          /\ queries # <<>>
          /\ queries[1] = LinkedInfoQuery(call.didUrl)
          /\ (stable /\ Answered) =>
                outcome = Some(OnChain(call.didUrl, didStore, didBlacklist))
    /\ (pc = "done" /\ call.op = "resolve" /\ previous # None /\ stable /\ Answered
            /\ previous[1].stable /\ previous[1].answered) =>
          outcome[1] = previous[1].outcome

\* A repeated call after the DID was deleted returns the new state, not the
\* document the call before it returned.
C9_Witness ==
    /\ ResolveDone("full")
    /\ previous # None
    /\ previous[1].answered
    /\ "didDocument" \in DOMAIN previous[1].outcome.value[1]
    /\ stable /\ Answered
    /\ outcome = Some(Returned(DeactivatedResult))

\* What resolve completes with on each of the chain states of its DID that
\* held during the finished call.
ResultsDuringCall ==
    { OnChain(call.didUrl, [a \in Addresses |-> h.details],
              IF h.deleted THEN {call.didUrl.address} ELSE {}) : h \in held }

C28_WitnessCreated ==
    /\ ResolveDone("full")
    /\ Answered
    /\ Cardinality(held) = 2
    /\ didStore[call.didUrl.address] > 0
    /\ deleted = "none"
    /\ outcome = Some(Returned(NotFoundResult))

\* C10: resolveRepresentation with an accept value outside the three
\* supported media types returns the error representationNotSupported with
\* empty metadata and no stream, without validating the DID and without any
\* chain query.
C10_UnsupportedAcceptFailsFirst ==
    (call.op = "resolveRepresentation"
        /\ call.accept \notin {"application/did+json", "application/did+ld+json",
                               "application/did+cbor"}) =>
        /\ pc = "done"
        /\ outcome = Some(Returned(
              [ didResolutionMetadata |-> [error |-> "representationNotSupported"],
                didDocumentMetadata |-> EmptyObject ]))
        /\ queries = <<>>

C10_Witness ==
    /\ pc = "done"
    /\ call.op = "resolveRepresentation"
    /\ call.accept = "text/html"
    /\ ~validateUri(call.didUrl, "Did")
    /\ outcome[1].value[1].didResolutionMetadata = [error |-> "representationNotSupported"]

-----------------------------------------------------------------------------
(* Properties of resolveRepresentation and dereference                     *)

SupportedContentTypes ==
    {"application/did+json", "application/did+ld+json", "application/did+cbor"}

\* What resolve(did) completes with on the current chain when the chain
\* answers both queries.
ResolveOnChain(did) ==
    IF ~validateUri(did, "Did")
    THEN Returned([ didResolutionMetadata |-> [error |-> "invalidDid"],
                    didDocumentMetadata |-> EmptyObject ])
    ELSE OnChain(did, didStore, didBlacklist)

\* The resolve(did) made by the finished call is resolve on the chain state
\* of the call whenever that state did not change and the chain answered.
ResolutionTracksChain ==
    (stable /\ Answered) => resolveCompletion = Some(ResolveOnChain(resolvedDid(call)))

\* An object with the two context URLs under '@context'.
PlusContext(object) ==
    [ k \in DOMAIN object \cup {"@context"} |->
        IF k = "@context" THEN <<W3C_DID_CONTEXT_URL, KILT_DID_CONTEXT_URL>>
        ELSE object[k] ]

\* The bytes of a document in a media type.
DocumentStream(accept, didDocument) ==
    IF accept = "application/did+json" THEN [json |-> didDocument]
    ELSE IF accept = "application/did+ld+json" THEN [json |-> PlusContext(didDocument)]
    ELSE [cbor |-> didDocument]

ExpectedContentType(accept) ==
    IF accept \in SupportedContentTypes THEN accept ELSE "application/did+json"

\* A dereferenced resource in a content type.
ContentStream(contentType, resource) ==
    IF contentType = "application/did+json" THEN resource
    ELSE IF contentType = "application/did+ld+json" THEN PlusContext(resource)
    ELSE [cbor |-> resource]

\* The finished call is dereference of a valid DID URL whose resolve(did)
\* returned.
DereferenceResolved ==
    /\ pc = "done"
    /\ call.op = "dereference"
    /\ validateUri(call.didUrl, "Any")
    /\ resolveCompletion # None
    /\ resolveCompletion[1].error = ""

\* C12: dereference of a valid DID URL without fragment returns the whole
\* document resolve returns for the DID (in the content type of the call) as
\* contentStream, with resolve's didDocumentMetadata as contentMetadata;
\* when resolve returns no document it returns the error notFound and no
\* contentStream.
C12_NoFragmentIsWholeDocument ==
    /\ (pc = "done" /\ call.op = "dereference" /\ validateUri(call.didUrl, "Any")
            /\ call.didUrl.fragment = None) =>
          /\ resolveCompletion # None
          /\ ResolutionTracksChain
    /\ (DereferenceResolved /\ call.didUrl.fragment = None) =>
          LET r == resolveCompletion[1].value[1]
              contentType == ExpectedContentType(call.accept)
          IN  IF "didDocument" \in DOMAIN r
              THEN outcome = Some(Returned(
                      [ dereferencingMetadata |-> [contentType |-> contentType],
                        contentMetadata |-> r.didDocumentMetadata,
                        contentStream |-> ContentStream(contentType, r.didDocument) ]))
              ELSE outcome = Some(Returned(
                      [ dereferencingMetadata |-> [error |-> "notFound"],
                        contentMetadata |-> r.didDocumentMetadata ]))

C12_Witness ==
    /\ DereferenceResolved
    /\ call.didUrl = LightUri("01", 1, Some(EncodedDetails), None)
    /\ call.accept = "application/did+json"
    /\ didStore[1] > 0
    /\ outcome[1].value[1].contentStream = [id |-> call.didUrl]
    /\ outcome[1].value[1].contentMetadata = [canonicalId |-> FullUri(1, None)]

\* The first element of a list whose id is the fragment, if there is one.
FirstWithId(list, fragment) ==
    LET matching == { i \in DOMAIN list : list[i].id = fragment }
    IN  IF matching = {} THEN None
        ELSE Some(list[CHOOSE i \in matching : \A j \in matching : i <= j])

\* The verification methods and the services of a resolve result.
MethodsOf(r) ==
    IF "didDocument" \in DOMAIN r /\ "verificationMethod" \in DOMAIN r.didDocument
    THEN r.didDocument.verificationMethod ELSE <<>>
ServicesOf(r) ==
    IF "didDocument" \in DOMAIN r /\ "service" \in DOMAIN r.didDocument
    THEN r.didDocument.service ELSE <<>>

\* C13: dereference of a valid DID URL with a fragment returns the first
\* verification method of the resolved document whose id is the fragment,
\* else the first service whose id is the fragment, else the error notFound;
\* contentMetadata is empty in each case.
C13_FragmentIsMethodThenService ==
    (DereferenceResolved /\ call.didUrl.fragment # None) =>
        LET r == resolveCompletion[1].value[1]
            contentType == ExpectedContentType(call.accept)
            method == FirstWithId(MethodsOf(r), call.didUrl.fragment)
            service == FirstWithId(ServicesOf(r), call.didUrl.fragment)
            resource == IF method # None THEN method ELSE service
        IN  IF resource # None
            THEN outcome = Some(Returned(
                    [ dereferencingMetadata |-> [contentType |-> contentType],
                      contentMetadata |-> EmptyObject,
                      contentStream |-> ContentStream(contentType, resource[1]) ]))
            ELSE outcome = Some(Returned(
                    [ dereferencingMetadata |-> [error |-> "notFound"],
                      contentMetadata |-> EmptyObject ]))

\* C27: dereference of a valid DID URL with a fragment returns a result for
\* every result of resolve, and does not throw: the error notFound when
\* resolve returns the id-only document of a migrated light DID and when it
\* returns no document.
C27_FragmentNeverThrows ==
    (DereferenceResolved /\ call.didUrl.fragment # None) =>
        LET r == resolveCompletion[1].value[1]
        IN  /\ outcome[1].error = ""
            /\ ( \/ "didDocument" \notin DOMAIN r
                 \/ DOMAIN r.didDocument = {"id"} ) =>
                  outcome[1].value[1].dereferencingMetadata = [error |-> "notFound"]

\* The call with accept = application/did+json in place of its accept value.
AsJson(c) == [c EXCEPT !.accept = "application/did+json"]

\* C14: dereference with an unsupported accept value completes exactly as
\* the call with accept = application/did+json completes on the same
\* resolution: a result carries contentType application/did+json or an error
\* that the JSON call carries too, never an error for the accept value.
C14_UnsupportedAcceptIsJson ==
    (pc = "done" /\ call.op = "dereference"
        /\ call.accept \notin SupportedContentTypes) =>
        /\ outcome[1] =
              IF earlyReturn(AsJson(call)) # None
              THEN Returned(earlyReturn(AsJson(call))[1])
              ELSE complete(AsJson(call), resolveCompletion[1])
        /\ outcome[1].error = "" =>
              outcome[1].value[1].dereferencingMetadata \in
                  { [contentType |-> "application/did+json"],
                    [error |-> "notFound"], [error |-> "invalidDidUrl"] }
        /\ (outcome[1].error = "" /\ validateUri(call.didUrl, "Any")
                /\ "contentStream" \in DOMAIN outcome[1].value[1]) =>
              /\ outcome[1].value[1].dereferencingMetadata =
                    [contentType |-> "application/did+json"]
              /\ IF call.didUrl.fragment = None
                 THEN outcome[1].value[1].contentStream =
                          resolveCompletion[1].value[1].didDocument
                 ELSE outcome[1].value[1].contentStream \in
                        { MethodsOf(resolveCompletion[1].value[1])[i] :
                            i \in DOMAIN MethodsOf(resolveCompletion[1].value[1]) }
                        \cup { ServicesOf(resolveCompletion[1].value[1])[i] :
                            i \in DOMAIN ServicesOf(resolveCompletion[1].value[1]) }

C14_Witness ==
    /\ pc = "done"
    /\ call.op = "dereference"
    /\ call.accept = "text/html"
    /\ call.didUrl.fragment = Fragment("svc")
    /\ outcome[1].error = ""
    /\ outcome[1].value[1].dereferencingMetadata = [contentType |-> "application/did+json"]
    /\ outcome[1].value[1].contentStream = ServiceEndpoint("svc")

-----------------------------------------------------------------------------
(* Properties of the light DID codec                                       *)

\* createLightDidDocument has completed on the input of the current use.
CreateDone == codecPc # "idle" /\ codecInput.op = "create"

\* parseDocumentFromLightDid has completed on a URI that parse accepts.
ParseDone ==
    /\ codecPc = "parsed"
    /\ codecInput.op = "parse"
    /\ parse(codecInput.uri).error = ""

KeyTypeOf(verificationMethod) == verificationMethod.publicKeyMultibase[2]

\* C15: for every valid creation input x, parseDocumentFromLightDid of the
\* id of createLightDidDocument(x) returns a document equal to
\* createLightDidDocument(x), property by property.
C15_LightDidRoundTrip ==
    (CreateDone /\ codecPc = "parsed") =>
        /\ parsed[1].error = ""
        /\ parsed[1].value[1] = created[1].value[1]

\* The three ways an input is invalid.
UnsupportedAuthenticationKey(input) ==
    KeyTypeOf(input.authentication[1]) \notin {"ed25519", "sr25519"}
UnsupportedKeyAgreementKey(input) ==
    /\ input.keyAgreement # None
    /\ KeyTypeOf(input.keyAgreement[1]) \notin encryptionKeyTypes
ReservedServiceId(input) ==
    /\ input.service # None
    /\ \E i \in DOMAIN input.service[1] :
          input.service[1][i].id \in {<<"#", "authentication">>, <<"#", "encryption">>}

\* C16: createLightDidDocument throws UnsupportedKeyError when the
\* authentication key is neither ed25519 nor sr25519, DidError when a
\* key-agreement key of an unapproved type is given, and DidError when a
\* service id is #authentication or #encryption; it then returns nothing,
\* and it returns a document for none of these inputs.
C16_InvalidInputThrows ==
    CreateDone =>
        LET input == codecInput.input
        IN  /\ UnsupportedAuthenticationKey(input) =>
                  created = Some(Thrown("UnsupportedKeyError"))
            /\ (~UnsupportedAuthenticationKey(input)
                    /\ (UnsupportedKeyAgreementKey(input) \/ ReservedServiceId(input))) =>
                  created = Some(Thrown("DidError"))
            /\ created[1].error = "" =>
                  /\ ~UnsupportedAuthenticationKey(input)
                  /\ ~UnsupportedKeyAgreementKey(input)
                  /\ ~ReservedServiceId(input)
            /\ created[1].error # "" => created[1].value = <<>>

C16_Witness ==
    /\ CreateDone
    /\ ~UnsupportedAuthenticationKey(codecInput.input)
    /\ ~UnsupportedKeyAgreementKey(codecInput.input)
    /\ codecInput.input.keyAgreement # None
    /\ ReservedServiceId(codecInput.input)
    /\ created = Some(Thrown("DidError"))

\* The shape of a light DID document: authentication is #authentication with
\* one verification method of that id, keyAgreement is #encryption with the
\* second verification method or is absent with no second one.
LightDocumentShape(d) ==
    /\ d.id.method = "kilt" /\ d.id.variant = "light" /\ d.id.fragment = None
    /\ d.id.enc \in {"00", "01"}
    /\ d.authentication = << <<"#", "authentication">> >>
    /\ Cardinality({ i \in DOMAIN d.verificationMethod :
                       d.verificationMethod[i].id = <<"#", "authentication">> }) = 1
    /\ d.verificationMethod[1].id = <<"#", "authentication">>
    /\ Len(d.verificationMethod) \in {1, 2}
    /\ IF "keyAgreement" \in DOMAIN d
       THEN /\ d.keyAgreement = << <<"#", "encryption">> >>
            /\ Len(d.verificationMethod) = 2
            /\ d.verificationMethod[2].id = <<"#", "encryption">>
       ELSE Len(d.verificationMethod) = 1

\* C17: a document createLightDidDocument returns has the id
\* did:kilt:light:<code><address>[:<details>] with code 00 for sr25519 and
\* 01 for ed25519 and the address of the authentication key, the details
\* being there exactly when a key-agreement key or at least one service was
\* given; it has the shape of a light DID document, with keyAgreement
\* exactly when a key-agreement key was given.
C17_CreatedDocumentShape ==
    /\ (CreateDone /\ created[1].error = "") =>
          LET input == codecInput.input
              d == created[1].value[1]
          IN  /\ LightDocumentShape(d)
              /\ d.id.enc = IF KeyTypeOf(input.authentication[1]) = "sr25519"
                            THEN "00" ELSE "01"
              /\ KeyTypeOf(input.authentication[1]) \in {"sr25519", "ed25519"}
              /\ d.id.address = input.authentication[1].publicKeyMultibase[3][2]
              /\ d.id.details # None <=>
                    \/ input.keyAgreement # None
                    \/ input.service # None /\ Len(input.service[1]) >= 1
              /\ "keyAgreement" \in DOMAIN d <=> input.keyAgreement # None
    /\ (codecPc = "parsed" /\ parsed[1].error = "") => LightDocumentShape(parsed[1].value[1])

C17_Witness ==
    /\ CreateDone
    /\ created[1].error = ""
    /\ codecInput.input.keyAgreement = None
    /\ codecInput.input.service = Some(<<ServiceEndpoint("svc")>>)
    /\ created[1].value[1].id.enc = "00"
    /\ created[1].value[1].id.details # None
    /\ Len(created[1].value[1].verificationMethod) = 1

C18_FragmentAllowed ==
    /\ ParseDone
    /\ codecInput.uri.fragment # None
    /\ ~codecInput.failIfFragmentPresent
    /\ parsed[1].error = ""
    /\ parsed[1].value[1].id = [codecInput.uri EXCEPT !.fragment = None]

-----------------------------------------------------------------------------
(* Properties of the reconstruction of public credentials                  *)

\* credentialFromChain has completed.
ReconstructionDone == credentialPc = "done"

\* The block holds a successful extrinsic with a 'credential stored' event
\* of the credential id.
HoldsCreation(block, credentialId) ==
    \E i \in DOMAIN block.extrinsics :
        /\ ~block.extrinsics[i].dispatchError
        /\ \E j \in DOMAIN block.extrinsics[i].events :
              block.extrinsics[i].events[j] =
                  [kind |-> "CredentialStored", id |-> credentialId]

\* C19: credentialFromChain fails with PublicCredentialError when the block
\* of the entry cannot be retrieved and when the block holds no successful
\* extrinsic with a 'credential stored' event of the credential id; it
\* fetches the block of the entry once.
C19_NoCreationExtrinsicFails ==
    ReconstructionDone =>
        /\ blockFetches = <<credentialCall.entry.blockNumber>>
        /\ ( \/ fetchedBlock.status = "rejected"
             \/ /\ fetchedBlock.status = "block"
                /\ ~HoldsCreation(fetchedBlock.block, credentialCall.credentialId) ) =>
              credentialOutcome = Some(Thrown("PublicCredentialError"))

\* The add calls in the batches of a call, and the DID calls in them.
RECURSIVE AddsIn(_)
AddsIn(c) ==
    IF c.kind = "publicCredentials.add" THEN {c.credential}
    ELSE IF c.kind \in {"utility.batch", "utility.batchAll", "utility.forceBatch"}
    THEN UNION { AddsIn(c.calls[i]) : i \in DOMAIN c.calls }
    ELSE {}

RECURSIVE DidCallsIn(_)
DidCallsIn(c) ==
    IF c.kind = "did.submitDidCall" THEN {c}
    ELSE IF c.kind \in {"utility.batch", "utility.batchAll", "utility.forceBatch"}
    THEN UNION { DidCallsIn(c.calls[i]) : i \in DOMAIN c.calls }
    ELSE {}

\* The DID-authorized 'add public credential' candidates of an extrinsic:
\* the encoded credential and the DID that authorized it.
Candidates(extrinsic) ==
    UNION { { [credential |-> a, did |-> d.did] : a \in AddsIn(d.call) } :
              d \in DidCallsIn(extrinsic) }

\* The candidate decodes and its recomputed identifier is the credential id.
Matches(candidate, credentialId) ==
    /\ credentialInputFromChain(candidate.credential).error = ""
    /\ credentialId =
          getIdForCredential(credentialInputFromChain(candidate.credential).value[1],
                             FullUri(candidate.did, None))

\* The extrinsic credentialFromChain has selected in the fetched block.
SelectedExtrinsic ==
    retrievePublicCredentialCreationExtrinsicFromBlock(
        credentialCall.credentialId, fetchedBlock.block)

\* C20: when the selected extrinsic is neither a DID-authorized call nor a
\* batch, or none of its 'add public credential' candidates has the
\* credential id as recomputed identifier, credentialFromChain fails with
\* PublicCredentialError; a credential it returns is that of a candidate
\* whose recomputed identifier is the credential id.
C20_NoMatchingCandidateFails ==
    (ReconstructionDone /\ fetchedBlock.status = "block" /\ SelectedExtrinsic # None) =>
        LET matching == { c \in Candidates(SelectedExtrinsic[1]) :
                            Matches(c, credentialCall.credentialId) }
        IN  /\ matching = {} =>
                  credentialOutcome = Some(Thrown("PublicCredentialError"))
            /\ credentialOutcome[1].error = "" =>
                  /\ matching # {}
                  /\ credentialOutcome[1].value[1].id = credentialCall.credentialId
                  /\ \E c \in matching :
                        /\ credentialOutcome[1].value[1].attester = FullUri(c.did, None)
                        /\ credentialOutcome[1].value[1].claims = c.credential.claims.cbor

\* The concatenation of a list of lists.
RECURSIVE Concatenation(_)
Concatenation(lists) ==
    IF lists = <<>> THEN <<>> ELSE Head(lists) \o Concatenation(Tail(lists))

\* The DID-authorized 'add public credential' candidates of a call in
\* flattened call order, each with the DID that authorized it; did is the
\* DID that authorizes the call, if one does.
RECURSIVE CandidatesInOrder(_, _)
CandidatesInOrder(c, did) ==
    IF c.kind = "publicCredentials.add"
    THEN IF did = None THEN <<>> ELSE <<[credential |-> c.credential, did |-> did[1]]>>
    ELSE IF c.kind = "did.submitDidCall"
    THEN IF did = None THEN CandidatesInOrder(c.call, Some(c.did)) ELSE <<>>
    ELSE IF c.kind \in {"utility.batch", "utility.batchAll", "utility.forceBatch"}
    THEN Concatenation([i \in DOMAIN c.calls |-> CandidatesInOrder(c.calls[i], did)])
    ELSE <<>>

\* The candidates of the selected extrinsic whose recomputed identifier is
\* the credential id, in flattened call order.
MatchingInOrder ==
    SelectSeq(CandidatesInOrder(SelectedExtrinsic[1], None),
              LAMBDA c : Matches(c, credentialCall.credentialId))

\* The credential returned has the content and the attester of a candidate.
IsCredentialOf(credential, candidate) ==
    /\ credential.attester = FullUri(candidate.did, None)
    /\ credential.claims = candidate.credential.claims.cbor
    /\ credential.cTypeHash = candidate.credential.ctypeHash
    /\ credential.subject = candidate.credential.subject
    /\ credential.delegationId = candidate.credential.authorization

\* C21: when the selected extrinsic contains several DID-authorized 'add
\* public credential' calls whose recomputed identifier is the credential
\* id, credentialFromChain returns the content and the attester of the last
\* of them in flattened call order.
C21_LastMatchingCallWins ==
    ( /\ ReconstructionDone
      /\ fetchedBlock.status = "block"
      /\ SelectedExtrinsic # None
      /\ Len(MatchingInOrder) > 1 ) =>
        /\ credentialOutcome[1].error = ""
        /\ IsCredentialOf(credentialOutcome[1].value[1],
                          MatchingInOrder[Len(MatchingInOrder)])

CredentialFields ==
    { "claims", "cTypeHash", "subject", "delegationId", "attester", "id",
      "blockNumber", "revoked" }

CreationsInBlock ==
    { i \in DOMAIN fetchedBlock.block.extrinsics :
        /\ ~fetchedBlock.block.extrinsics[i].dispatchError
        /\ \E j \in DOMAIN fetchedBlock.block.extrinsics[i].events :
              fetchedBlock.block.extrinsics[i].events[j] =
                  [kind |-> "CredentialStored", id |-> credentialCall.credentialId] }

\* C25: the extrinsic credentialFromChain reconstructs from is the last in
\* block order among the extrinsics that have no dispatch error and a
\* 'credential stored' event of the credential id: never one with a dispatch
\* error, never an earlier one when a later one qualifies.
C25_LastSuccessfulCreationExtrinsic ==
    (ReconstructionDone /\ fetchedBlock.status = "block") =>
        LET used ==
              IF CreationsInBlock = {} THEN None
              ELSE Some(fetchedBlock.block.extrinsics[
                          CHOOSE i \in CreationsInBlock :
                              \A j \in CreationsInBlock : j <= i].extrinsic)
        IN  /\ SelectedExtrinsic = used
            /\ credentialOutcome = Some(credentialFromExtrinsic(
                  credentialCall.credentialId, credentialCall.entry, used))

\* The block has two successful extrinsics with the event, and the
\* reconstruction from the first would have ended otherwise.
C25_Witness ==
    /\ ReconstructionDone
    /\ fetchedBlock.status = "block"
    /\ CreationsInBlock = {1, 2}
    /\ credentialOutcome # Some(credentialFromExtrinsic(
          credentialCall.credentialId, credentialCall.entry,
          Some(fetchedBlock.block.extrinsics[1].extrinsic)))

\* The later extrinsic has the event and a dispatch error: the earlier one
\* is used.
C25_WitnessFailedLater ==
    /\ ReconstructionDone
    /\ fetchedBlock.status = "block"
    /\ CreationsInBlock = {1}
    /\ Len(fetchedBlock.block.extrinsics) = 2
    /\ fetchedBlock.block.extrinsics[2].dispatchError
    /\ fetchedBlock.block.extrinsics[2].events = fetchedBlock.block.extrinsics[1].events
    /\ credentialOutcome[1].error = ""

\* C29: when the selected extrinsic holds a DID-authorized 'add public
\* credential' call whose recomputed identifier is the credential id,
\* credentialFromChain returns a credential, whatever its other 'add public
\* credential' calls hold: a call with an invalid subject or with
\* undecodable claims does not make it fail.
C29_GarbageCallDoesNotFail ==
    ( /\ ReconstructionDone
      /\ fetchedBlock.status = "block"
      /\ SelectedExtrinsic # None
      /\ Len(MatchingInOrder) > 0 ) =>
        credentialOutcome[1].error = ""

(* Properties of credentialsFromChain *)

BatchCalled == batchCall.op = "credentialsFromChain"

\* C23: credentialsFromChain called with an error result fails at once with
\* an Error that carries the text of the chain's error: it issues no chain
\* query and starts no reconstruction.
C23_ErrorResultThrows ==
    (BatchCalled /\ batchCall.publicCredentialEntries.isErr) =>
        /\ batchPc = "done"
        /\ batchOutcome =
              Some([ error |-> "Error",
                     message |-> batchCall.publicCredentialEntries.asErr.text,
                     value |-> <<>> ])
        /\ batchFetches = <<>>
        /\ tasks = <<>>
        /\ settled = <<>>

C23_Witness ==
    /\ BatchCalled
    /\ batchCall.publicCredentialEntries.isErr
    /\ batchOutcome # None
    /\ batchOutcome[1].message = "InternalError"

\* What credentialFromChain returns or throws for the pair of a task alone,
\* given the answer its block query got.
AloneOutcome(task) ==
    IF task.answer.status = "rejected" THEN Thrown("BlockQueryError")
    ELSE credentialFromExtrinsic(task.credentialId, task.entry,
            retrievePublicCredentialCreationExtrinsicFromBlock(
                task.credentialId, task.answer.block))

\* The reconstructions that have failed, by their place in the order of
\* completion.
FailuresInTime ==
    { k \in DOMAIN settled : AloneOutcome(tasks[settled[k]]).error # "" }

\* C24: credentialsFromChain called with an Ok list of n pairs starts the n
\* reconstructions at once, each with the block query of its own entry. It
\* returns when all have succeeded, the n credentials in input order, each
\* the one credentialFromChain returns for that pair alone; it is rejected
\* as soon as one fails, with that first failure, and returns nothing then.
C24_AllOrFirstFailure ==
    (BatchCalled /\ ~batchCall.publicCredentialEntries.isErr) =>
        LET asOk == batchCall.publicCredentialEntries.asOk
        IN  /\ Len(tasks) = Len(asOk)
            /\ Len(batchFetches) = Len(asOk)
            /\ \A i \in DOMAIN asOk :
                  /\ tasks[i].credentialId = asOk[i].encodedId
                  /\ tasks[i].entry = asOk[i].encodedCredentialEntry[1]
                  /\ batchFetches[i] = asOk[i].encodedCredentialEntry[1].blockNumber
            /\ IF FailuresInTime # {}
               THEN LET first == CHOOSE k \in FailuresInTime :
                                    \A l \in FailuresInTime : k <= l
                    IN  /\ batchPc = "done"
                        /\ batchOutcome = Some(AloneOutcome(tasks[settled[first]]))
                        /\ batchOutcome[1].value = <<>>
               ELSE IF Len(settled) = Len(asOk)
               THEN /\ batchPc = "done"
                    /\ batchOutcome[1].error = ""
                    /\ Len(batchOutcome[1].value[1]) = Len(asOk)
                    /\ \A i \in DOMAIN asOk :
                          batchOutcome[1].value[1][i] = AloneOutcome(tasks[i]).value[1]
               ELSE /\ batchPc = "awaitAll"
                    /\ batchOutcome = None

\* Two reconstructions have failed in the reverse of the input order: the
\* call is rejected with the failure of the second pair, and the first pair
\* has failed otherwise later.
C24_Witness ==
    /\ BatchCalled
    /\ ~batchCall.publicCredentialEntries.isErr
    /\ settled = <<2, 1>>
    /\ batchOutcome # None
    /\ batchOutcome[1].error = "BlockQueryError"
    /\ AloneOutcome(tasks[1]).error = "CborDecodeError"

\* Two reconstructions have succeeded in the reverse of the input order,
\* with distinct credentials.
C24_WitnessAllSucceed ==
    /\ BatchCalled
    /\ ~batchCall.publicCredentialEntries.isErr
    /\ settled = <<2, 1>>
    /\ batchOutcome # None
    /\ batchOutcome[1].error = ""
    /\ batchOutcome[1].value[1][1] # batchOutcome[1].value[1][2]

(* Properties of flattenCalls *)

IsBatch(c) == c.kind \in {"utility.batch", "utility.batchAll", "utility.forceBatch"}

\* The paths from a call to the calls in it that are no batch: the places
\* in the lists of the batches on the way.
RECURSIVE LeafPaths(_)
LeafPaths(c) ==
    IF IsBatch(c)
    THEN UNION { { <<i>> \o path : path \in LeafPaths(c.calls[i]) } : i \in DOMAIN c.calls }
    ELSE { <<>> }

RECURSIVE CallAt(_, _)
CallAt(c, path) ==
    IF path = <<>> THEN c ELSE CallAt(c.calls[Head(path)], Tail(path))

\* One path is left of another: depth-first, left to right.
RECURSIVE LeftOf(_, _)
LeftOf(p, q) ==
    IF p = <<>> \/ q = <<>> THEN FALSE
    ELSE IF Head(p) # Head(q) THEN Head(p) < Head(q)
    ELSE LeftOf(Tail(p), Tail(q))

\* C26: flattenCalls returns, for every finitely nested call, the calls in
\* it that are no batch, in depth-first left-to-right order: no batch is in
\* the result, every other call is in it once per occurrence, an empty
\* batch contributes nothing, and a call that is no batch gives the list of
\* itself.
C26_FlattenIsLeavesInOrder ==
    flattenInput # None =>
        LET tree == flattenInput[1]
            paths == LeafPaths(tree)
        IN  /\ flattened # None
            /\ Len(flattened[1]) = Cardinality(paths)
            /\ \A p \in paths :
                  flattened[1][1 + Cardinality({ q \in paths : LeftOf(q, p) })]
                      = CallAt(tree, p)
            /\ \A i \in DOMAIN flattened[1] : ~IsBatch(flattened[1][i])
            /\ ~IsBatch(tree) => flattened[1] = <<tree>>
            /\ (IsBatch(tree) /\ tree.calls = <<>>) => flattened[1] = <<>>

\* A batch of a batch of two calls and of an empty batch is flattened to
\* the two calls.
C26_Witness ==
    /\ flattenInput # None
    /\ IsBatch(flattenInput[1])
    /\ Len(flattenInput[1].calls) = 2
    /\ IsBatch(flattenInput[1].calls[1])
    /\ Len(flattenInput[1].calls[1].calls) = 2
    /\ flattenInput[1].calls[2] = BatchCall("utility.batch", <<>>)
    /\ Len(flattened[1]) = 2
    /\ flattened[1][1] # flattened[1][2]

(* Properties of the type bundle *)

\* The ranges of the bundle ascend without gap or overlap: the first starts
\* at 0, each other starts at the upper bound of the one before it plus
\* one, and only the last has no upper bound.
RangesAreContiguous ==
    LET ranges == typeBundleForPolkadot.types
    IN  /\ ranges[1].minmax[1] = Some(0)
        /\ \A i \in DOMAIN ranges :
              /\ (ranges[i].minmax[2] = None) <=> (i = Len(ranges))
              /\ ranges[i].minmax[2] # None =>
                    /\ ranges[i].minmax[1][1] <= ranges[i].minmax[2][1]
                    /\ ranges[i + 1].minmax[1] = Some(ranges[i].minmax[2][1] + 1)

\* C30: the minmax ranges of typeBundleForPolkadot.types ascend, are
\* pairwise disjoint and cover every runtime spec version from 0 on without
\* a gap, so every runtime spec version selects exactly one type set.
C30_EveryVersionSelectsOneTypeSet ==
    specVersion # None =>
        /\ Len(selectedTypes[1]) = 1
        /\ RangesAreContiguous

====
